---- MODULE Spec2Model ----
(***************************************************************************)
(* Model of the resume PDF renderer (lib/pdf-generator.ts).               *)
(*                                                                         *)
(* Lengths are integers in hundredths of a point (50pt = 5000), so that   *)
(* PAGE_HEIGHT = 841.89 and fractional moveDown factors stay exact.       *)
(* Strings are sequences of one-character strings; the en dash U+2013 and *)
(* the em dash U+2014 are the elements "ndash" and "mdash".               *)
(*                                                                         *)
(* The PDF engine (pdfkit) is outside the repository.  Its primitives are *)
(* modelled by their documented cursor behaviour: text() writes lines at  *)
(* the cursor and continues on a new page when a line does not fit,       *)
(* moveDown(n) advances the cursor by n line heights, addPage() starts a  *)
(* page with the cursor at the top margin.  The line height is taken as   *)
(* the current font size; the number of lines a text wraps to is an       *)
(* input of the run (variable layout).                                    *)
(***************************************************************************)
EXTENDS Integers, Sequences, FiniteSets, TLC

----------------------------------------------------------------------------
(* Bounds of the explored inputs *)

MaxLinks == 2
MaxExperience == 2
MaxEducation == 2
MaxSummaryLines == 52
MaxDescLines == 3
PbRadius == 60
MaxNameLines == 10
MaxFailAt == 40
ClRadius == 2
MaxSubmits == 3
PhRadius == 1
TextFieldsLength == 300

----------------------------------------------------------------------------
(* Layout constants, pdf-generator.ts lines 13-39 *)

MARGIN_TOP == 5000
MARGIN_BOTTOM == 5000
MARGIN_LEFT == 5000
MARGIN_RIGHT == 5000
PAGE_WIDTH == 59528
PAGE_HEIGHT == 84189
CONTENT_WIDTH == PAGE_WIDTH - MARGIN_LEFT - MARGIN_RIGHT
PHOTO_SIZE == 20000
PHOTO_GAP == 1200

FONT_NAME == 22
FONT_CONTACT == 10
FONT_SECTION_HEADER == 14
FONT_COMPANY == 12
FONT_POSITION == 11
FONT_SUMMARY == 11
FONT_DESCRIPTION == 10
FONT_SKILLS == 11
FONT_CERTIFICATES == 11
FONT_PROJECT == 9

(* the literal 100 of checkPageBreak *)
MIN_REMAINING == 10000

(* app/api/generate/route.ts, line 7 *)
MAX_BODY_SIZE == 512000

----------------------------------------------------------------------------
(* JavaScript values *)

(* undefined: the value of an absent property *)
Undefined == <<"undefined-value">>

(* obj.name, undefined when the property is absent *)
Prop(obj, name) == IF name \in DOMAIN obj THEN obj[name] ELSE Undefined

(* truthiness of a string-or-undefined value *)
Truthy(s) == s # Undefined /\ s # <<>>

(* `${v}` inside a template literal *)
Interp(v) == IF v = Undefined THEN <<"u","n","d","e","f","i","n","e","d">> ELSE v

Whitespace == {" ", "\t", "\n", "\r"}

RECURSIVE TrimStart(_)
TrimStart(s) ==
  IF s = <<>> THEN s
  ELSE IF Head(s) \in Whitespace THEN TrimStart(Tail(s)) ELSE s

RECURSIVE TrimEnd(_)
TrimEnd(s) ==
  IF s = <<>> THEN s
  ELSE IF s[Len(s)] \in Whitespace THEN TrimEnd(SubSeq(s, 1, Len(s) - 1)) ELSE s

(* String.prototype.trim *)
Trim(s) == TrimEnd(TrimStart(s))

Lower == <<"a","b","c","d","e","f","g","h","i","j","k","l","m",
           "n","o","p","q","r","s","t","u","v","w","x","y","z">>
Upper == <<"A","B","C","D","E","F","G","H","I","J","K","L","M",
           "N","O","P","Q","R","S","T","U","V","W","X","Y","Z">>

(* String.prototype.toUpperCase on one character *)
ToUpperChar(c) ==
  IF \E i \in 1..26 : Lower[i] = c
  THEN Upper[CHOOSE i \in 1..26 : Lower[i] = c]
  ELSE c

(* capitalizeFirst, pdf-generator.ts lines 487-490 *)
capitalizeFirst(str) ==
  IF str = Undefined \/ Len(str) = 0 THEN str
  ELSE <<ToUpperChar(Head(str))>> \o Tail(str)

(* elements of a sequence that occur in it: s.includes(sub) *)
Includes(s, sub) ==
  /\ s # Undefined
  /\ \E i \in 1..(Len(s) - Len(sub) + 1) : SubSeq(s, i, i + Len(sub) - 1) = sub

SeqUpTo(S, n) == UNION { [1..k -> S] : k \in 0..n }

----------------------------------------------------------------------------
(* String literals of the renderer and of the explored records *)

S_Jane == <<"J","a","n","e">>
S_Doe == <<"D","o","e">>
S_JD == <<"J","D">>
S_Email == <<"j","@","x",".","i","o">>
S_Phone == <<"5","5","5">>
S_Url == <<"h",":","/","/","x">>
S_blog == <<"b","l","o","g">>
S_Blank == <<" ">>
S_Summary == <<"S","u","m">>
S_Acme == <<"A","c","m","e">>
S_Dev == <<"D","e","v">>
S_Desc == <<"L","e","d">>
S_June == <<"J","u","n","e">>
S_March == <<"M","a","r","c","h">>
S_2020 == <<"2","0","2","0">>
S_2023 == <<"2","0","2","3">>
S_Api == <<"A","p","i">>
S_Detail == <<"F","a","s","t">>
S_Uni == <<"U","n","i">>
S_BSc == <<"B","S","c">>
S_CS == <<"C","S">>
S_Honours == <<"H","o","n">>
S_FreeDuration == <<"2","0","1","6"," ","-"," ","2","0","2","0">>
S_English == <<"E","n","g","l","i","s","h">>
S_Thai == <<"T","h","a","i">>
S_TypeScript == <<"T","S">>
S_React == <<"R","e","a","c","t">>
S_AWS == <<"A","W","S">>
S_Amazon == <<"A","m","z">>

S_git == <<"g","i","t">>
S_portfolio == <<"p","o","r","t","f","o","l","i","o">>
S_linkedin == <<"l","i","n","k","e","d","i","n">>
S_other == <<"o","t","h","e","r">>
S_GitRepo == <<"G","i","t"," ","R","e","p","o">>
S_LinkedIn == <<"L","i","n","k","e","d","I","n">>
S_Portfolio == <<"P","o","r","t","f","o","l","i","o">>
S_Other == <<"O","t","h","e","r">>
S_Present == <<"P","r","e","s","e","n","t">>
S_native == <<"n","a","t","i","v","e">>
S_basic == <<"b","a","s","i","c">>

S_Sep == <<" ", "|", " ">>
S_Colon == <<":", " ">>
S_EnDash == <<" ", "ndash", " ">>
S_EmDash == <<" ", "mdash", " ">>
S_Bullet == <<" ", "bullet", " ">>
S_ProjectsLabel == <<"P","r","o","j","e","c","t","s",":">>

T_SUMMARY == <<"P","R","O","F","E","S","S","I","O","N","A","L"," ","S","U","M","M","A","R","Y">>
T_EXPERIENCE == <<"W","O","R","K"," ","E","X","P","E","R","I","E","N","C","E">>
T_EDUCATION == <<"E","D","U","C","A","T","I","O","N">>
T_LANGUAGES == <<"L","A","N","G","U","A","G","E","S">>
T_SKILLS == <<"S","K","I","L","L","S">>
T_CERTIFICATES == <<"C","E","R","T","I","F","I","C","A","T","E","S">>

----------------------------------------------------------------------------
(* State *)

VARIABLES
  data,     \* the record handed to generateResumePDF
  layout,   \* lines each flowed text wraps to, as the engine measures it
  engine,   \* how the engine behaves for this call: whether and what it throws
  failAt,   \* the write (position in the document's log) that throws, 0: none
  errored,  \* the engine has emitted its "error" event
  pc,       \* position of the call inside generateResumePDF
  doc,      \* the PDFDocument: cursor, page, font size, writes so far
  prev,     \* the PDFDocument as it was before the last call on it
  calls,    \* section renderers invoked so far, and "end" for doc.end()
  pending,  \* chunks the engine has produced and not yet emitted
  chunks,   \* the chunks array of generateResumePDF
  settled,  \* state of the returned promise
  result,   \* value the promise settled with
  other,    \* a second call of generateResumePDF in flight: its own locals
  req,      \* a request to POST /api/generate and the handler's progress
  form,     \* a ResumeForm instance: its state, its render, its submissions
  san       \* a call of sanitizeResumeData: its input and what came of it

vars ==
  <<data, layout, engine, failAt, errored, pc, doc, prev, calls, pending, chunks,
    settled, result, other, req,
                 form, san>>

----------------------------------------------------------------------------
(* The PDF engine: the members of PDFDocument the renderer uses *)

NoArg == 0 - 1

(* lowest cursor position a line may end at *)
MaxY == PAGE_HEIGHT - MARGIN_BOTTOM

(* a write or a page-break check, as the engine saw it: where it began
   (x, y, page) and where it left the cursor (y2, page2) *)
Event(op, role, str, x, y, page, width, y2, page2) ==
  [op |-> op, role |-> role, str |-> str, x |-> x, y |-> y, page |-> page,
   width |-> width, y2 |-> y2, page2 |-> page2]

(* new PDFDocument({size: "A4", margins: MARGINS, bufferPages: true}) *)
NewDoc ==
  [x |-> MARGIN_LEFT, y |-> MARGIN_TOP, page |-> 1, size |-> 12,
   log |-> <<>>, thrown |-> FALSE]

(* a throw inside a renderer: every later call of the renderer is skipped *)
Throw(d) == [d EXCEPT !.thrown = TRUE]

(* the write about to be made is the one this engine fails on *)
Fails(d) == failAt = Len(d.log) + 1

(* doc.fontSize(size) (font and colour do not move the cursor) *)
FontSize(d, size) == IF d.thrown THEN d ELSE [d EXCEPT !.size = size]

(* doc.addPage() *)
AddPage(d) ==
  IF d.thrown THEN d
  ELSE [d EXCEPT !.page = @ + 1, !.y = MARGIN_TOP, !.x = MARGIN_LEFT]

(* doc.moveDown(n), n in hundredths of a line *)
MoveDown(d, n100) ==
  IF d.thrown THEN d ELSE [d EXCEPT !.y = @ + n100 * d.size]

(* where a line of height lh starting at y lands: on the next page when it
   does not fit above the bottom margin *)
LinePos(y, page, lh) ==
  IF y + lh > MaxY THEN [y |-> MARGIN_TOP, page |-> page + 1]
  ELSE [y |-> y, page |-> page]

(* the cursor after n lines of height lh flowed from (y, page): the lines
   that fit go on this page, the rest fill following pages from the top *)
Flow(y, page, lh, n) ==
  LET fit == IF MaxY - y >= lh THEN (MaxY - y) \div lh ELSE 0
      perPage == (MaxY - MARGIN_TOP) \div lh
  IN IF n <= fit THEN [y |-> y + n * lh, page |-> page]
     ELSE LET rest == n - fit
              more == (rest + perPage - 1) \div perPage
              lastLines == rest - (more - 1) * perPage
          IN [y |-> MARGIN_TOP + lastLines * lh, page |-> page + more]

(* lines a text of the given role wraps to *)
Lines(role) ==
  CASE role = "summary" -> layout.summaryLines
    [] role = "description" -> layout.descLines
    [] role = "name" -> layout.nameLines
    [] OTHER -> 1

(* doc.text(str, x, y, {width}) ; x and y are NoArg when not passed *)
Text(d, role, str, xArg, yArg, width) ==
  IF d.thrown THEN d
  ELSE IF Fails(d) THEN Throw(d)
  ELSE LET x0 == IF xArg = NoArg THEN d.x ELSE xArg
           y0 == IF yArg = NoArg THEN d.y ELSE yArg
           lh == d.size * 100
           first == LinePos(y0, d.page, lh)
           last == Flow(y0, d.page, lh, Lines(role))
       IN [d EXCEPT !.x = x0, !.y = last.y, !.page = last.page,
                    !.log = Append(@, Event("text", role, str, x0, first.y,
                                            first.page, width, last.y, last.page))]

(* moveTo(x1, doc.y).lineTo(x2, doc.y).stroke() *)
StrokeLine(d, x1, x2) ==
  IF d.thrown THEN d
  ELSE IF Fails(d) THEN Throw(d)
  ELSE [d EXCEPT !.log = Append(@, Event("line", "divider", <<>>, x1, d.y,
                                         d.page, x2 - x1, d.y, d.page))]

(* image formats the engine can embed *)
EmbeddableFormats == {"PNG", "JPEG"}

(* doc.image(bytes, x, y, {fit}) : throws on bytes that are no JPEG or PNG *)
Image(d, bytes, x, y, size) ==
  IF d.thrown THEN d
  ELSE IF bytes = <<>> \/ Head(bytes) \notin EmbeddableFormats THEN Throw(d)
  ELSE [d EXCEPT !.log = Append(@, Event("image", "photo", bytes, x, y,
                                         d.page, size, d.y, d.page))]

(* String.prototype.split(",") *)
RECURSIVE SplitComma(_)
SplitComma(s) ==
  IF \A i \in 1..Len(s) : s[i] # ","
  THEN <<s>>
  ELSE LET k == CHOOSE i \in 1..Len(s) :
                  s[i] = "," /\ \A j \in 1..(i - 1) : s[j] # ","
       IN <<SubSeq(s, 1, k - 1)>> \o SplitComma(SubSeq(s, k + 1, Len(s)))

(* symbols of the base64 alphabet in the explored photos; each stands for
   the base64 text of a file of that kind ("AAAA": bytes that are no image) *)
Base64Symbols == {"PNG", "JPEG", "WEBP", "AAAA"}

(* Buffer.from(str, "base64"): symbols outside the alphabet are skipped *)
BufferFromBase64(str) == SelectSeq(str, LAMBDA c : c \in Base64Symbols)

----------------------------------------------------------------------------
(* Helpers of pdf-generator.ts.  A renderer body is written as the chain of
   its engine calls, d1 the document after the first call, d2 after the
   second, ...; where the code passes doc.y as the y of a text, the text is
   placed at the cursor (NoArg). *)

(* the page-break check, recorded with the cursor before and after it *)
Checked(d, after) ==
  [after EXCEPT !.log = Append(@, Event("check", "", <<>>, d.x, d.y, d.page,
                                        0, after.y, after.page))]

(* checkPageBreak with <= in place of < *)
checkPageBreak_Le(d) ==
  IF d.thrown THEN d
  ELSE IF PAGE_HEIGHT - MARGIN_BOTTOM - d.y <= MIN_REMAINING
       THEN Checked(d, AddPage(d))
       ELSE Checked(d, d)

(* checkPageBreak, lines 476-482 *)
checkPageBreak(d) ==
  IF d.thrown THEN d
  ELSE IF PAGE_HEIGHT - MARGIN_BOTTOM - d.y < MIN_REMAINING
       THEN Checked(d, AddPage(d))
       ELSE Checked(d, d)

(* addSectionHeader, lines 449-471 *)
addSectionHeader(d, title) ==
  LET d1 == Text(FontSize(d, FONT_SECTION_HEADER), "title", title,
                 NoArg, NoArg, CONTENT_WIDTH)
      d2 == MoveDown(d1, 30)
      d3 == StrokeLine(d2, MARGIN_LEFT, PAGE_WIDTH - MARGIN_RIGHT)
  IN MoveDown(d3, 50)

(* if (cond) doc.moveDown(n) *)
MoveDownIf(d, cond, n100) == IF cond THEN MoveDown(d, n100) ELSE d

(* array.join(sep) *)
RECURSIVE Join(_, _)
Join(strs, sep) ==
  IF strs = <<>> THEN <<>>
  ELSE IF Len(strs) = 1 THEN Interp(strs[1])
  ELSE Interp(strs[1]) \o sep \o Join(Tail(strs), sep)

----------------------------------------------------------------------------
(* generateHeader, lines 86-166.  The arrays of a ResumeData value are always
   present (schema.ts lines 115-132), so of the guards "!data.x ||
   data.x.length === 0" only the length test can hold. *)

(* data.photo.split(",")[1], line 95 *)
Base64Data(photo) ==
  IF Len(SplitComma(photo)) >= 2 THEN SplitComma(photo)[2] ELSE Undefined

(* lines 95-103: Buffer.from(undefined) throws, doc.image may throw *)
PlacePhoto(d, photo) ==
  IF Base64Data(photo) = Undefined THEN Throw(d)
  ELSE Image(d, BufferFromBase64(Base64Data(photo)),
             PAGE_WIDTH - MARGIN_RIGHT - PHOTO_SIZE, MARGIN_TOP, PHOTO_SIZE)

(* the photo block without its try/catch *)
HeaderPhoto_NoCatch(d, photo) == PlacePhoto(d, photo)

(* the photo block, lines 93-107: a throw inside it is caught and dropped *)
HeaderPhoto(d, photo) ==
  IF d.thrown THEN d
  ELSE IF PlacePhoto(d, photo).thrown THEN d
  ELSE PlacePhoto(d, photo)

(* the text of one link line, line 141 *)
LinkText(link) ==
  Interp(capitalizeFirst(link.type)) \o S_Colon \o Interp(link.url)

(* the links.forEach body, lines 140-154, from link i on *)
RECURSIVE HeaderLinks(_, _, _, _)
HeaderLinks(d, links, i, textWidth) ==
  IF i > Len(links) THEN d
  ELSE LET d1 == Text(d, "link", LinkText(links[i]), MARGIN_LEFT, NoArg,
                      textWidth)
           d2 == MoveDownIf(d1, i - 1 < Len(links) - 1, 20)
       IN HeaderLinks(d2, links, i + 1, textWidth)

(* lines 137-155 *)
HeaderLinkBlock(d, links, textWidth) ==
  IF Len(links) > 0 THEN HeaderLinks(MoveDown(d, 30), links, 1, textWidth)
  ELSE d

(* the name line without its nickname branch *)
FullName_NoNickname(rec) ==
  Interp(rec.firstName) \o <<" ">> \o Interp(rec.lastName)

(* the name line, lines 110-112 *)
FullName(rec) ==
  IF Truthy(rec.nickname)
  THEN Interp(rec.firstName) \o <<" ">> \o Interp(rec.lastName)
         \o <<" ", "(">> \o Interp(rec.nickname) \o <<")">>
  ELSE Interp(rec.firstName) \o <<" ">> \o Interp(rec.lastName)

(* lines 88-90 *)
HeaderTextWidth(rec) ==
  IF Truthy(rec.photo) THEN CONTENT_WIDTH - PHOTO_SIZE - PHOTO_GAP
  ELSE CONTENT_WIDTH

(* the header without lines 158-163 *)
BelowPhoto_NoAdvance(d, hasPhoto) == d

(* lines 158-163: the cursor is moved below the photo area *)
BelowPhoto(d, hasPhoto) ==
  IF hasPhoto /\ ~d.thrown /\ d.y < MARGIN_TOP + PHOTO_SIZE + 1000
  THEN [d EXCEPT !.y = MARGIN_TOP + PHOTO_SIZE + 1000]
  ELSE d

generateHeader(d, rec) ==
  LET d1 == IF Truthy(rec.photo) THEN HeaderPhoto(d, rec.photo) ELSE d
      d2 == Text(FontSize(d1, FONT_NAME), "name", FullName(rec),
                 MARGIN_LEFT, MARGIN_TOP, HeaderTextWidth(rec))
      d3 == MoveDown(d2, 50)
      d4 == Text(FontSize(d3, FONT_CONTACT), "contact",
                 Interp(rec.email) \o S_Sep \o Interp(rec.phone),
                 MARGIN_LEFT, NoArg, HeaderTextWidth(rec))
      d5 == HeaderLinkBlock(d4, rec.links, HeaderTextWidth(rec))
      d6 == BelowPhoto(d5, Truthy(rec.photo))
  IN MoveDown(d6, 150)

----------------------------------------------------------------------------
(* generateProfessionalSummary, lines 171-194 *)

generateProfessionalSummary(d, rec) ==
  IF ~Truthy(rec.summary) \/ Len(Trim(rec.summary)) = 0 THEN d
  ELSE LET d1 == checkPageBreak(d)
           d2 == addSectionHeader(d1, T_SUMMARY)
           d3 == Text(FontSize(d2, FONT_SUMMARY), "summary", rec.summary,
                      NoArg, NoArg, CONTENT_WIDTH)
       IN MoveDown(d3, 150)

----------------------------------------------------------------------------
(* generateWorkExperience, lines 199-311 *)

(* the detail line written for every truthy detail, blank or not *)
ProjectDetail_NoTrim(d, detail) ==
  IF Truthy(detail)
  THEN Text(FontSize(d, FONT_PROJECT), "projectDetail", detail,
            MARGIN_LEFT + 2000, NoArg, CONTENT_WIDTH - 2000)
  ELSE d

(* lines 286-295: the detail line of a project *)
ProjectDetail(d, detail) ==
  IF Truthy(detail) /\ Len(Trim(detail)) > 0
  THEN Text(FontSize(d, FONT_PROJECT), "projectDetail", detail,
            MARGIN_LEFT + 2000, NoArg, CONTENT_WIDTH - 2000)
  ELSE d

(* the projects.forEach body, lines 272-301, from project j on *)
RECURSIVE ExperienceProjects(_, _, _)
ExperienceProjects(d, projects, j) ==
  IF j > Len(projects) THEN d
  ELSE LET d1 == MoveDown(d, 25)
           d2 == Text(FontSize(d1, FONT_PROJECT), "projectName",
                      <<"bullet", " ">> \o Interp(Prop(projects[j], "name")),
                      MARGIN_LEFT + 1000, NoArg, CONTENT_WIDTH - 1000)
           d3 == ProjectDetail(d2, Prop(projects[j], "detail"))
           d4 == MoveDownIf(d3, j - 1 < Len(projects) - 1, 25)
       IN ExperienceProjects(d4, projects, j + 1)

(* lines 259-302 *)
ExperienceProjectBlock(d, projects) ==
  IF Len(projects) > 0
  THEN ExperienceProjects(
         Text(FontSize(MoveDown(d, 50), FONT_PROJECT), "projectsLabel",
              S_ProjectsLabel, NoArg, NoArg, CONTENT_WIDTH),
         projects, 1)
  ELSE d

(* lines 215-307: entry i written from the cursor of d0 (currentY = d0.y) *)
ExperienceEntryBody(d0, exps, i) ==
  LET d1 == Text(FontSize(d0, FONT_COMPANY), "company",
                 Prop(exps[i], "company"), MARGIN_LEFT, d0.y,
                 CONTENT_WIDTH - 15000)
      d2 == Text(d1, "duration", Prop(exps[i], "duration"),
                 MARGIN_LEFT, d0.y, CONTENT_WIDTH)
      d3 == MoveDown(d2, 30)
      d4 == Text(FontSize(d3, FONT_POSITION), "position",
                 Prop(exps[i], "position"), NoArg, NoArg, CONTENT_WIDTH)
      d5 == MoveDown(d4, 30)
      d6 == Text(FontSize(d5, FONT_DESCRIPTION), "description",
                 Prop(exps[i], "description"), NoArg, NoArg, CONTENT_WIDTH)
      d7 == ExperienceProjectBlock(d6, Prop(exps[i], "projects"))
  IN MoveDownIf(d7, i - 1 < Len(exps) - 1, 100)

(* an experience entry written without the page-break check of line 213 *)
ExperienceEntry_NoCheck(d, exps, i) == ExperienceEntryBody(d, exps, i)

(* the experience.forEach body for entry i, lines 211-308 *)
ExperienceEntry(d, exps, i) == ExperienceEntryBody(checkPageBreak(d), exps, i)

RECURSIVE ExperienceEntries(_, _, _)
ExperienceEntries(d, exps, i) ==
  IF i > Len(exps) THEN d
  ELSE ExperienceEntries(ExperienceEntry(d, exps, i), exps, i + 1)

generateWorkExperience(d, rec) ==
  IF Len(rec.experience) = 0 THEN d
  ELSE LET d1 == checkPageBreak(d)
           d2 == addSectionHeader(d1, T_EXPERIENCE)
           d3 == ExperienceEntries(d2, rec.experience, 1)
       IN MoveDown(d3, 150)

----------------------------------------------------------------------------
(* generateEducation, lines 316-383 *)

(* lines 350-353 *)
DegreeText(edu) ==
  IF Truthy(Prop(edu, "fieldOfStudy")) /\ Len(Trim(Prop(edu, "fieldOfStudy"))) > 0
  THEN Interp(Prop(edu, "degree")) \o S_EmDash \o Interp(Prop(edu, "fieldOfStudy"))
  ELSE Prop(edu, "degree")

(* lines 365-375 *)
EducationDescription(d, description) ==
  IF Truthy(description) /\ Len(Trim(description)) > 0
  THEN Text(FontSize(MoveDown(d, 30), FONT_DESCRIPTION), "eduDescription",
            description, NoArg, NoArg, CONTENT_WIDTH)
  ELSE d

(* lines 328-379: entry i written from the cursor of d0 (currentY = d0.y) *)
EducationEntryBody(d0, edus, i) ==
  LET d1 == Text(FontSize(d0, FONT_COMPANY), "institution",
                 Prop(edus[i], "institution"), MARGIN_LEFT, d0.y,
                 CONTENT_WIDTH - 15000)
      d2 == Text(d1, "eduDuration", Prop(edus[i], "duration"),
                 MARGIN_LEFT, d0.y, CONTENT_WIDTH)
      d3 == MoveDown(d2, 30)
      d4 == Text(FontSize(d3, FONT_POSITION), "degree", DegreeText(edus[i]),
                 NoArg, NoArg, CONTENT_WIDTH)
      d5 == EducationDescription(d4, Prop(edus[i], "description"))
  IN MoveDownIf(d5, i - 1 < Len(edus) - 1, 100)

(* the education.forEach body for entry i, lines 325-380 *)
EducationEntry(d, edus, i) == EducationEntryBody(checkPageBreak(d), edus, i)

RECURSIVE EducationEntries(_, _, _)
EducationEntries(d, edus, i) ==
  IF i > Len(edus) THEN d
  ELSE EducationEntries(EducationEntry(d, edus, i), edus, i + 1)

generateEducation(d, rec) ==
  IF Len(rec.education) = 0 THEN d
  ELSE LET d1 == checkPageBreak(d)
           d2 == addSectionHeader(d1, T_EDUCATION)
           d3 == EducationEntries(d2, rec.education, 1)
       IN MoveDown(d3, 150)

----------------------------------------------------------------------------
(* generateSkills, lines 388-410 *)

SkillValues(skills) == [k \in 1..Len(skills) |-> Prop(skills[k], "value")]

(* lines 393-409 *)
SkillsBody(d, rec) ==
  LET d1 == checkPageBreak(d)
      d2 == addSectionHeader(d1, T_SKILLS)
      d3 == Text(FontSize(d2, FONT_SKILLS), "skills",
                 Join(SkillValues(rec.skills), S_Bullet),
                 NoArg, NoArg, CONTENT_WIDTH)
  IN MoveDown(d3, 150)

(* generateSkills without the guard for an empty array *)
generateSkills_NoGuard(d, rec) == SkillsBody(d, rec)

generateSkills(d, rec) ==
  IF Len(rec.skills) = 0 THEN d ELSE SkillsBody(d, rec)

----------------------------------------------------------------------------
(* generateCertificates, lines 415-444 *)

(* the text of one certificate, lines 426-428 *)
CertText(cert) ==
  IF Truthy(Prop(cert, "year"))
  THEN Interp(Prop(cert, "name")) \o S_EmDash \o Interp(Prop(cert, "issuer"))
         \o <<" ", "(">> \o Interp(Prop(cert, "year")) \o <<")">>
  ELSE Interp(Prop(cert, "name")) \o S_EmDash \o Interp(Prop(cert, "issuer"))

RECURSIVE CertificateEntries(_, _, _)
CertificateEntries(d, certs, i) ==
  IF i > Len(certs) THEN d
  ELSE LET d1 == Text(FontSize(d, FONT_CERTIFICATES), "certificate",
                      CertText(certs[i]), NoArg, NoArg, CONTENT_WIDTH)
           d2 == MoveDownIf(d1, i - 1 < Len(certs) - 1, 30)
       IN CertificateEntries(d2, certs, i + 1)

generateCertificates(d, rec) ==
  IF Len(rec.certificates) = 0 THEN d
  ELSE LET d1 == checkPageBreak(d)
           d2 == addSectionHeader(d1, T_CERTIFICATES)
       IN CertificateEntries(d2, rec.certificates, 1)

----------------------------------------------------------------------------
(* The explored records *)

Base ==
  [firstName |-> S_Jane, lastName |-> S_Doe, nickname |-> Undefined,
   email |-> S_Email, phone |-> S_Phone, photo |-> Undefined, links |-> <<>>,
   summary |-> S_Summary, experience |-> <<>>, education |-> <<>>,
   languages |-> <<>>, skills |-> <<>>, certificates |-> <<>>]

(* data URIs: a PNG, a WebP (accepted by the schema, not embeddable), bytes
   that are no image, an empty payload, and a value with no comma at all *)
PhotoPng == <<"d","a","t","a",":", ",", "PNG">>
PhotoWebp == <<"d","a","t","a",":", ",", "WEBP">>
PhotoGarbage == <<"d","a","t","a",":", ",", "AAAA">>
PhotoEmptyPayload == <<"d","a","t","a",":", ",">>
PhotoNoComma == <<"d","a","t","a",":">>
BadPhotos == {PhotoWebp, PhotoGarbage, PhotoEmptyPayload, PhotoNoComma}
PhotoSet == {Undefined, <<>>, PhotoPng} \cup BadPhotos

NicknameSet == {Undefined, <<>>, S_JD}

LinkTypes == {S_git, S_portfolio, S_linkedin, S_other}
LinkSet ==
  { [type |-> t, url |-> S_Url] : t \in LinkTypes }
  \cup { [type |-> t, url |-> S_Url, otherLabel |-> l] :
           t \in {S_git, S_other}, l \in {<<>>, S_Blank, S_blog} }

ProjectSeqs ==
  { <<>>,
    << [name |-> S_Api, detail |-> S_Detail] >>,
    << [name |-> S_Api, detail |-> S_Blank], [name |-> S_Api] >> }

(* experience entries as experienceSchema types them, schema.ts lines 9-42 *)
ExpSet ==
  { [company |-> S_Acme, position |-> S_Dev, startMonth |-> S_June,
     startYear |-> S_2020, isCurrent |-> c, description |-> S_Desc,
     projects |-> ps] : c \in BOOLEAN, ps \in ProjectSeqs }
  \cup
  { [company |-> S_Acme, position |-> S_Dev, startMonth |-> S_June,
     startYear |-> S_2020, endMonth |-> S_March, endYear |-> S_2023,
     isCurrent |-> c, description |-> S_Desc, projects |-> ps] :
       c \in BOOLEAN, ps \in ProjectSeqs }

(* education entries: with startYear/endYear/isCurrent as sanitize.ts and the
   tests build them, and with the free-text duration of schema.ts lines 44-67 *)
EduSet ==
  { [institution |-> S_Uni, degree |-> S_BSc, startYear |-> S_2020,
     isCurrent |-> c] : c \in BOOLEAN }
  \cup
  { [institution |-> S_Uni, degree |-> S_BSc, fieldOfStudy |-> f,
     startYear |-> S_2020, endYear |-> S_2023, isCurrent |-> c,
     description |-> f2] :
       c \in BOOLEAN, f \in {S_CS, S_Blank}, f2 \in {S_Honours, <<>>} }
  \cup
  { [institution |-> S_Uni, degree |-> S_BSc, duration |-> S_FreeDuration] }

LanguageSeqs ==
  { <<>>, << [language |-> S_English, level |-> S_native] >>,
    << [language |-> S_English, level |-> S_native],
       [language |-> S_Thai, level |-> S_basic] >> }

SkillSeqs ==
  { <<>>, << [value |-> S_TypeScript] >>,
    << [value |-> S_TypeScript], [value |-> S_React] >> }

CertSeqs ==
  { <<>>,
    << [name |-> S_AWS, issuer |-> S_Amazon, year |-> S_2023] >>,
    << [name |-> S_AWS, issuer |-> S_Amazon] >>,
    << [name |-> S_AWS, issuer |-> S_Amazon, year |-> S_Blank] >>,
    << [name |-> S_AWS, issuer |-> S_Amazon, year |-> <<>>],
       [name |-> S_AWS, issuer |-> S_Amazon, year |-> S_2023] >> }

SummarySet == {S_Summary, <<>>, S_Blank, Undefined}

BaseLayout == [summaryLines |-> 1, descLines |-> 1, nameLines |-> 1]

HeaderRecords ==
  { [Base EXCEPT !.nickname = n, !.photo = ph, !.links = ls] :
      n \in NicknameSet, ph \in PhotoSet, ls \in SeqUpTo(LinkSet, 1) }
  \cup
  { [Base EXCEPT !.photo = ph, !.links = ls] :
      ph \in {Undefined, PhotoPng}, ls \in SeqUpTo(LinkSet, MaxLinks) }

ExperienceRecords ==
  { [Base EXCEPT !.experience = es] : es \in SeqUpTo(ExpSet, MaxExperience) }

EducationRecords ==
  { [Base EXCEPT !.education = es] : es \in SeqUpTo(EduSet, MaxEducation) }

TailRecords ==
  { [Base EXCEPT !.summary = sm, !.languages = la, !.skills = sk,
                 !.certificates = ce] :
      sm \in SummarySet, la \in LanguageSeqs, sk \in SkillSeqs, ce \in CertSeqs }

(* records for the pagination runs: 0..Max entries of one kind each *)
FlowExp ==
  [company |-> S_Acme, position |-> S_Dev, startMonth |-> S_June,
   startYear |-> S_2020, isCurrent |-> TRUE, description |-> S_Desc,
   projects |-> << [name |-> S_Api, detail |-> S_Detail] >>]
FlowEdu ==
  [institution |-> S_Uni, degree |-> S_BSc, startYear |-> S_2020,
   isCurrent |-> TRUE]
FlowRecords ==
  { [Base EXCEPT !.experience = [k \in 1..ne |-> FlowExp],
                 !.education = [k \in 1..nd |-> FlowEdu],
                 !.skills = tl[1], !.certificates = tl[2]] :
      ne \in 0..MaxExperience, nd \in 0..MaxEducation,
      tl \in { <<(<<>>), (<<>>)>>,
               << << [value |-> S_React] >>,
                  << [name |-> S_AWS, issuer |-> S_Amazon] >> >> } }

Layouts ==
  [summaryLines : 1..MaxSummaryLines, descLines : 1..MaxDescLines,
   nameLines : {1}]

(* headers of every height next to a photo: the name wraps to 1..MaxNameLines
   lines and 0..MaxLinks link lines follow the contact line *)
PhotoHeaderRecords ==
  { [Base EXCEPT !.photo = ph,
                 !.links = [k \in 1..n |-> [type |-> S_git, url |-> S_Url]],
                 !.experience = es] :
      ph \in {Undefined, PhotoPng, PhotoWebp}, n \in 0..MaxLinks,
      es \in {<<>>, <<FlowExp>>} }

HeaderLayouts ==
  [summaryLines : {1}, descLines : {1}, nameLines : 1..MaxNameLines]

(* records rendered by an engine that fails: one page and two pages *)
FaultRecords ==
  { [Base EXCEPT !.experience = [k \in 1..ne |-> FlowExp],
                 !.education = <<FlowEdu>>,
                 !.skills = << [value |-> S_React] >>,
                 !.certificates = << [name |-> S_AWS, issuer |-> S_Amazon] >>] :
      ne \in {1, 2} }

Records ==
  HeaderRecords \cup ExperienceRecords \cup EducationRecords \cup TailRecords

----------------------------------------------------------------------------
(* lib/sanitize.ts *)

(* the code points of /[\x00-\x08\x0B\x0C\x0E-\x1F\x7F]/: each token stands
   for the one character with that code *)
ControlChars == {"x00", "x01", "x08", "x0B", "x0C", "x0E", "x1F", "x7F"}

IsControl(c) == c \in ControlChars

NotControl(c) == ~IsControl(c)

(* str.replace(/[...]/g, "") *)
StripControls(str) == SelectSeq(str, NotControl)

(* the control characters left in place *)
cleanString_TrimOnly(str) == Trim(str)

(* lines 4-6 *)
cleanString(str) == Trim(StripControls(str))

(* value ? cleanString(value) : undefined *)
CleanOptional(value) == IF Truthy(value) THEN cleanString(value) ELSE Undefined

(* data.links ?? [] *)
ArrayOf(obj, name) == IF name \in DOMAIN obj THEN obj[name] ELSE <<>>

(* lines 17-21 *)
SanitizeLink(link) ==
  [type |-> Prop(link, "type"),
   url |-> cleanString(Prop(link, "url")),
   otherLabel |-> CleanOptional(Prop(link, "otherLabel"))]

(* lines 32-35 *)
SanitizeProject(proj) ==
  [name |-> cleanString(Prop(proj, "name")),
   detail |-> CleanOptional(Prop(proj, "detail"))]

(* lines 23-36 *)
SanitizeExperience(exp) ==
  [company |-> cleanString(Prop(exp, "company")),
   position |-> cleanString(Prop(exp, "position")),
   startMonth |-> cleanString(Prop(exp, "startMonth")),
   startYear |-> cleanString(Prop(exp, "startYear")),
   endMonth |-> CleanOptional(Prop(exp, "endMonth")),
   endYear |-> CleanOptional(Prop(exp, "endYear")),
   isCurrent |-> Prop(exp, "isCurrent"),
   description |-> cleanString(Prop(exp, "description")),
   projects |-> [k \in 1..Len(ArrayOf(exp, "projects")) |->
                   SanitizeProject(exp.projects[k])]]

(* lines 37-45 *)
SanitizeEducation(edu) ==
  [institution |-> cleanString(Prop(edu, "institution")),
   degree |-> cleanString(Prop(edu, "degree")),
   fieldOfStudy |-> CleanOptional(Prop(edu, "fieldOfStudy")),
   startYear |-> cleanString(Prop(edu, "startYear")),
   endYear |-> CleanOptional(Prop(edu, "endYear")),
   isCurrent |-> Prop(edu, "isCurrent"),
   description |-> CleanOptional(Prop(edu, "description"))]

(* lines 46-49 *)
SanitizeLanguage(lang) ==
  [language |-> cleanString(Prop(lang, "language")),
   level |-> Prop(lang, "level")]

(* lines 51-55 *)
SanitizeCertificate(cert) ==
  [name |-> cleanString(Prop(cert, "name")),
   issuer |-> cleanString(Prop(cert, "issuer")),
   year |-> CleanOptional(Prop(cert, "year"))]

(* the fields handed to cleanString without a guard *)
RequiredOf(kind) ==
  CASE kind = "links" -> {"url"}
    [] kind = "experience" ->
         {"company", "position", "startMonth", "startYear", "description"}
    [] kind = "projects" -> {"name"}
    [] kind = "education" -> {"institution", "degree", "startYear"}
    [] kind = "languages" -> {"language"}
    [] kind = "skills" -> {"value"}
    [] kind = "certificates" -> {"name", "issuer"}
    [] OTHER -> {"firstName", "lastName", "email", "phone", "summary"}

MissingIn(obj, kind) == \E name \in RequiredOf(kind) : Prop(obj, name) = Undefined

MissingInAny(obj, kind) ==
  \E k \in 1..Len(ArrayOf(obj, kind)) : MissingIn(obj[kind][k], kind)

(* cleanString(undefined): undefined.replace throws a TypeError *)
SanitizeThrows(d) ==
  \/ MissingIn(d, "top")
  \/ \E kind \in {"links", "experience", "education", "languages", "skills",
                  "certificates"} : MissingInAny(d, kind)
  \/ \E k \in 1..Len(ArrayOf(d, "experience")) :
       MissingInAny(d.experience[k], "projects")

(* lines 8-57 *)
sanitizeResumeData(d) ==
  [firstName |-> cleanString(Prop(d, "firstName")),
   lastName |-> cleanString(Prop(d, "lastName")),
   nickname |-> CleanOptional(Prop(d, "nickname")),
   email |-> cleanString(Prop(d, "email")),
   phone |-> cleanString(Prop(d, "phone")),
   photo |-> Prop(d, "photo"),
   links |-> [k \in 1..Len(ArrayOf(d, "links")) |-> SanitizeLink(d.links[k])],
   summary |-> cleanString(Prop(d, "summary")),
   experience |-> [k \in 1..Len(ArrayOf(d, "experience")) |->
                     SanitizeExperience(d.experience[k])],
   education |-> [k \in 1..Len(ArrayOf(d, "education")) |->
                    SanitizeEducation(d.education[k])],
   languages |-> [k \in 1..Len(ArrayOf(d, "languages")) |->
                    SanitizeLanguage(d.languages[k])],
   skills |-> [k \in 1..Len(ArrayOf(d, "skills")) |->
                 [value |-> cleanString(Prop(d.skills[k], "value"))]],
   certificates |-> [k \in 1..Len(ArrayOf(d, "certificates")) |->
                       SanitizeCertificate(d.certificates[k])]]

(* a call of sanitizeResumeData: the record returned, or the throw *)
SanitizeResult(d) ==
  IF SanitizeThrows(d) THEN [threw |-> TRUE, value |-> <<>>]
  ELSE [threw |-> FALSE, value |-> sanitizeResumeData(d)]

(* strings with control characters, tabs, newlines and outer whitespace *)
DirtyStrings ==
  { <<"x01">>,
    <<" ", "x7F">>,
    <<" ", "x01", "J", "D", "x7F", " ">>,
    <<"x00", "J", "\t", "D", "x1F">>,
    <<"\n", "J", "\n", "D", "\r">>,
    <<"J", "x0B", "x0C", "x08", "x0E", "D">> }

OptionalValues == DirtyStrings \cup {Undefined, <<>>, S_Blank, S_JD}

DirtyRecords ==
  { [Base EXCEPT !.firstName = str, !.nickname = o] :
      str \in DirtyStrings, o \in OptionalValues }
  \cup
  { [Base EXCEPT !.links = << [type |-> S_other, url |-> str,
                               otherLabel |-> o] >>] :
      str \in DirtyStrings, o \in OptionalValues }
  \cup
  { [Base EXCEPT !.experience =
       << [company |-> str, position |-> S_Dev, startMonth |-> S_June,
           startYear |-> S_2020, endMonth |-> o, endYear |-> o,
           isCurrent |-> FALSE, description |-> S_Desc,
           projects |-> << [name |-> str, detail |-> o] >>] >>] :
      str \in DirtyStrings, o \in OptionalValues }
  \cup
  { [Base EXCEPT !.education =
       << [institution |-> str, degree |-> S_BSc, fieldOfStudy |-> o,
           startYear |-> S_2020, endYear |-> o, isCurrent |-> FALSE,
           description |-> o] >>] :
      str \in DirtyStrings, o \in OptionalValues }
  \cup
  { [Base EXCEPT !.education =
       << [institution |-> str, degree |-> S_BSc, fieldOfStudy |-> o,
           duration |-> S_FreeDuration, description |-> o] >>] :
      str \in DirtyStrings, o \in {Undefined, <<>>, S_CS} }
  \cup
  { [Base EXCEPT !.languages = << [language |-> str, level |-> S_native] >>,
                 !.skills = << [value |-> str] >>,
                 !.certificates = << [name |-> str, issuer |-> S_Amazon,
                                      year |-> o] >>] :
      str \in DirtyStrings, o \in OptionalValues }

SanitizeInputs == Records \cup DirtyRecords

(* the keys of an entry that resumeSchema knows, lib/schema.ts lines 9-67 *)
SchemaKeys(kind) ==
  CASE kind = "experience" ->
         {"company", "position", "startMonth", "startYear", "endMonth",
          "endYear", "isCurrent", "description", "projects"}
    [] kind = "education" ->
         {"institution", "degree", "fieldOfStudy", "duration", "description"}

(* the keys that must hold a string of at least one character *)
SchemaRequired(kind) ==
  CASE kind = "experience" ->
         {"company", "position", "startMonth", "startYear", "description"}
    [] kind = "education" -> {"institution", "degree", "duration"}
    [] kind = "top" -> {"firstName", "lastName", "email", "phone", "summary"}
    [] OTHER -> RequiredOf(kind)

EntryAccepted(obj, kind) ==
  \A name \in SchemaRequired(kind) : Truthy(Prop(obj, name))

EntriesAccepted(obj, kind) ==
  \A k \in 1..Len(ArrayOf(obj, kind)) : EntryAccepted(obj[kind][k], kind)

(* resumeSchema.safeParse(...).success, lines 88-133; a photo counts as
   valid by its format alone *)
SchemaAccepts(d) ==
  /\ EntryAccepted(d, "top")
  /\ d.photo \in {Undefined, PhotoPng, PhotoWebp}
  /\ \A kind \in {"links", "experience", "education", "languages", "skills",
                  "certificates"} : EntriesAccepted(d, kind)
  /\ \A k \in 1..Len(d.links) : d.links[k].type \in LinkTypes
  /\ \A k \in 1..Len(d.experience) :
       /\ "isCurrent" \in DOMAIN d.experience[k]
       /\ EntriesAccepted(d.experience[k], "projects")

(* z.object drops the keys it does not know *)
StripUnknown(obj, kind) ==
  [name \in (DOMAIN obj) \cap SchemaKeys(kind) |-> obj[name]]

(* resumeSchema.safeParse(...).data *)
SchemaData(d) ==
  [d EXCEPT !.experience = [k \in 1..Len(d.experience) |->
                              StripUnknown(d.experience[k], "experience")],
            !.education = [k \in 1..Len(d.education) |->
                             StripUnknown(d.education[k], "education")]]

(* the records the route hands to generateResumePDF, route.ts lines 54-77:
   accepted by the schema, then sanitized *)
SanitizedRecords ==
  { sanitizeResumeData(SchemaData(raw)) :
      raw \in { r \in SanitizeInputs :
                  SchemaAccepts(r) /\ ~SanitizeThrows(SchemaData(r)) } }

----------------------------------------------------------------------------
(* generateResumePDF, lines 47-81, and the engine's stream events *)

(* values a promise is settled with *)
NoResult == [kind |-> "nothing"]
Buffer(bytes) == [kind |-> "Buffer", bytes |-> bytes]
Error(message) == [kind |-> "Error", message |-> message]

(* the chunks the engine produces: the file header when the document is
   created, one chunk per buffered page at doc.end(); then the stream ends *)
FileHeader == <<"%PDF">>
PageChunk(p) == <<"page", ToString(p)>>
EndOfStream == <<"EOF">>

(* Buffer.concat(chunks): the bytes of the chunks, one after the other *)
RECURSIVE BufferConcat(_)
BufferConcat(cs) ==
  IF cs = <<>> THEN <<>> ELSE Head(cs) \o BufferConcat(Tail(cs))

NoDoc ==
  [x |-> 0, y |-> 0, page |-> 0, size |-> 0, log |-> <<>>, thrown |-> FALSE]

(* the locals of a call of generateResumePDF; "idle": no such call *)
NoCall ==
  [data |-> Base, engine |-> "ok", pc |-> "idle", doc |-> NoDoc,
   calls |-> <<>>, pending |-> <<>>, chunks |-> <<>>, settled |-> "pending",
   result |-> NoResult]

(* no request is being handled *)
(* ResumeForm before anything happened, components/ResumeForm.tsx lines
   16-18: isGenerating is the React state, view the value of isGenerating
   in the last render (what the button and the onSubmit closure see) *)
NoForm ==
  [isGenerating |-> FALSE, view |-> FALSE, error |-> <<>>, photo |-> <<>>,
   handlers |-> <<>>]

NoSanitize ==
  [pc |-> "idle", via |-> "none", input |-> <<>>,
   output |-> [threw |-> FALSE, value |-> <<>>],
   again |-> [threw |-> FALSE, value |-> <<>>]]

NoRequest ==
  [contentLength |-> Undefined, body |-> "none", sanitizer |-> "ok",
   generator |-> "resolves", pc |-> "idle", validated |-> <<>>,
   sanitized |-> <<>>, calls |-> <<>>, status |-> 0, error |-> "",
   message |-> <<>>, rejection |-> <<>>, log |-> <<>>]

Init ==
  /\ \/ /\ \/ data \in Records /\ layout = BaseLayout
           \/ data \in FlowRecords /\ layout \in Layouts
           \/ data \in PhotoHeaderRecords /\ layout \in HeaderLayouts
           \/ data \in SanitizedRecords /\ layout = BaseLayout
        /\ engine = "ok"
          /\ failAt = 0
     \/ data = Base /\ layout = BaseLayout
          /\ engine \in {"throwsError", "throwsValue"}
          /\ failAt = 0
     \/ data \in FaultRecords /\ layout = BaseLayout
          /\ engine \in {"writeThrowsError", "writeThrowsValue"}
          /\ failAt \in 1..MaxFailAt
     \/ data \in FaultRecords /\ layout = BaseLayout
          /\ engine = "emitsError"
          /\ failAt = 0
  /\ errored = FALSE
  /\ pc = "construct"
  /\ doc = NoDoc
  /\ prev = NoDoc
  /\ calls = <<>>
  /\ pending = <<>>
  /\ chunks = <<>>
  /\ settled = "pending"
  /\ result = NoResult
  /\ other = NoCall
  /\ req = NoRequest
  /\ form = NoForm
  /\ san = NoSanitize

(* a promise that every resolve / reject call settles anew *)
Settle_Overwrite(how, value) ==
  /\ settled' = how
  /\ result' = value

(* resolve / reject of the promise: only the first call settles it *)
Settle(how, value) ==
  /\ settled' = IF settled = "pending" THEN how ELSE settled
  /\ result' = IF settled = "pending" THEN value ELSE result

(* lines 50-61: new PDFDocument(...), chunks = [], the three doc.on(...) *)
Construct ==
  /\ pc = "construct"
  /\ IF engine \notin {"throwsError", "throwsValue"}
     THEN /\ doc' = NewDoc
          /\ pending' = <<FileHeader>>
          /\ pc' = "header"
     ELSE /\ pc' = "catch"
          /\ UNCHANGED <<doc, pending>>
  /\ UNCHANGED <<data, layout, engine, failAt, errored, prev, calls,
                 chunks, settled, result, other, req,
                 form, san>>

(* a renderer call whose exception is swallowed *)
Render_Continue(at, name, after, next) ==
  /\ pc = at
  /\ doc' = after
  /\ prev' = doc
  /\ calls' = Append(calls, name)
  /\ pc' = next
  /\ UNCHANGED <<data, layout, engine, failAt, errored, pending, chunks,
                 settled, result, other, req,
                 form, san>>

(* one call of a section renderer from the try block *)
Render(at, name, after, next) ==
  /\ pc = at
  /\ doc' = after
  /\ prev' = doc
  /\ calls' = Append(calls, name)
  /\ pc' = IF after.thrown THEN "catch" ELSE next
  /\ UNCHANGED <<data, layout, engine, failAt, errored, pending, chunks,
                 settled, result, other, req,
                 form, san>>

(* line 64 *)
Header == Render("header", "Header", generateHeader(doc, data), "summary")

(* line 65 *)
Summary ==
  Render("summary", "Summary", generateProfessionalSummary(doc, data), "experience")

(* line 66 *)
Experience ==
  Render("experience", "Experience", generateWorkExperience(doc, data), "education")

(* line 67 *)
Education ==
  Render("education", "Education", generateEducation(doc, data), "skills")

(* line 68 *)
Skills == Render("skills", "Skills", generateSkills(doc, data), "certificates")

(* line 69 *)
Certificates ==
  Render("certificates", "Certificates", generateCertificates(doc, data), "end")

(* line 72: doc.end() hands the buffered pages to the stream *)
End ==
  /\ pc = "end"
  /\ calls' = Append(calls, "end")
  /\ pending' = pending \o [p \in 1..doc.page |-> PageChunk(p)] \o <<EndOfStream>>
  /\ pc' = "returned"
  /\ UNCHANGED <<data, layout, engine, failAt, errored, doc, prev, chunks,
                 settled, result, other, req,
                 form, san>>

(* what an engine throws: an Error, or a value that is no Error *)
ThrownBy(eng) ==
  IF eng \in {"throwsValue", "writeThrowsValue"}
  THEN [kind |-> "string", message |-> "thrown value"]
  ELSE Error("thrown Error")

Thrown == ThrownBy(engine)

(* the catch block passing on whatever was thrown *)
Normalize_Raw(error) == error

(* lines 75-77: error instanceof Error ? error : new Error("Unknown ...") *)
Normalize(error) ==
  IF error.kind = "Error" THEN error
  ELSE Error("Unknown error during PDF generation")

(* lines 73-79: the catch block *)
Catch ==
  /\ pc = "catch"
  /\ Settle("rejected", Normalize(Thrown))
  /\ pc' = "returned"
  /\ UNCHANGED <<data, layout, engine, failAt, errored, doc, prev, calls,
                 pending, chunks, other, req,
                 form, san>>

(* line 59: the "data" listener; the engine may emit a chunk as soon as it
   has produced it *)
EmitData ==
  /\ pending # <<>>
  /\ Head(pending) # EndOfStream
  /\ chunks' = Append(chunks, Head(pending))
  /\ pending' = Tail(pending)
  /\ UNCHANGED <<data, layout, engine, failAt, errored, pc, doc, prev,
                 calls, settled, result, other, req,
                 form, san>>

(* line 60: the "end" listener *)
EmitEnd ==
  /\ pc = "returned"
  /\ pending # <<>>
  /\ Head(pending) = EndOfStream
  /\ Settle("resolved", Buffer(BufferConcat(chunks)))
  /\ pending' = Tail(pending)
  /\ UNCHANGED <<data, layout, engine, failAt, errored, pc, doc, prev,
                 calls, chunks, other, req,
                 form, san>>

(* line 61: the "error" listener; the engine emits "error" at most once, at
   any moment after the listeners are registered *)
EmitError ==
  /\ engine = "emitsError"
  /\ pc # "construct"
  /\ ~errored
  /\ errored' = TRUE
  /\ Settle("rejected", Error("stream error"))
  /\ UNCHANGED <<data, layout, engine, failAt, pc, doc, prev, calls, pending,
                 chunks, other, req,
                 form, san>>

Next ==
  \/ Construct
  \/ Header
  \/ Summary
  \/ Experience
  \/ Education
  \/ Skills
  \/ Certificates
  \/ End
  \/ Catch
  \/ EmitData
  \/ EmitEnd
  \/ EmitError

Spec == Init /\ [][Next]_vars

----------------------------------------------------------------------------
(* checkPageBreak on its own: one call at every cursor position within
   PbRadius hundredths of a point around the 100pt threshold *)

InitPB ==
  /\ data = Base /\ layout = BaseLayout /\ engine = "ok"
  /\ failAt = 0
  /\ errored = FALSE
  /\ pc = "pb_call"
  /\ \E y0 \in (MaxY - MIN_REMAINING - PbRadius)..(MaxY - MIN_REMAINING + PbRadius),
        p0 \in 1..2 :
       doc = [NewDoc EXCEPT !.y = y0, !.page = p0]
  /\ prev = NoDoc
  /\ calls = <<>>
  /\ pending = <<>>
  /\ chunks = <<>>
  /\ settled = "pending"
  /\ result = NoResult
  /\ other = NoCall
  /\ req = NoRequest
  /\ form = NoForm
  /\ san = NoSanitize

CheckPageBreakCall ==
  /\ pc = "pb_call"
  /\ doc' = checkPageBreak(doc)
  /\ prev' = doc
  /\ pc' = "pb_done"
  /\ UNCHANGED <<data, layout, engine, failAt, errored, calls, pending,
                 chunks, settled, result, other, req,
                 form, san>>

NextPB == CheckPageBreakCall

SpecPB == InitPB /\ [][NextPB]_vars

----------------------------------------------------------------------------
(* Two calls of generateResumePDF in flight at once.  The first call is the
   one of Spec; the second keeps its locals (doc, chunks, the promise) in
   `other`.  Both measure text with the same engine (layout). *)

(* the renderer call at each position of the try block, lines 64-69 *)
RenderStep(at, d, rec) ==
  CASE at = "header" ->
         [doc |-> generateHeader(d, rec), name |-> "Header", next |-> "summary"]
    [] at = "summary" ->
         [doc |-> generateProfessionalSummary(d, rec), name |-> "Summary",
          next |-> "experience"]
    [] at = "experience" ->
         [doc |-> generateWorkExperience(d, rec), name |-> "Experience",
          next |-> "education"]
    [] at = "education" ->
         [doc |-> generateEducation(d, rec), name |-> "Education",
          next |-> "skills"]
    [] at = "skills" ->
         [doc |-> generateSkills(d, rec), name |-> "Skills",
          next |-> "certificates"]
    [] at = "certificates" ->
         [doc |-> generateCertificates(d, rec), name |-> "Certificates",
          next |-> "end"]

RenderPositions ==
  {"header", "summary", "experience", "education", "skills", "certificates"}

(* resolve / reject on the promise of call c *)
CallSettle(c, how, value) ==
  IF c.settled = "pending" THEN [c EXCEPT !.settled = how, !.result = value]
  ELSE c

(* the steps call c can take, lines 47-81: what Construct, Render, End, Catch,
   EmitData and EmitEnd do, on the locals of c; list is the chunk array its
   listeners close over *)
CallStepsOn(c, list) ==
  (IF c.pc = "construct"
   THEN { IF c.engine \in {"throwsError", "throwsValue"}
          THEN [c EXCEPT !.pc = "catch"]
          ELSE [c EXCEPT !.doc = NewDoc, !.pending = <<FileHeader>>,
                         !.pc = "header"] }
   ELSE {})
  \cup
  (IF c.pc \in RenderPositions
   THEN { [c EXCEPT !.doc = RenderStep(c.pc, c.doc, c.data).doc,
                    !.calls = Append(@, RenderStep(c.pc, c.doc, c.data).name),
                    !.pc = IF RenderStep(c.pc, c.doc, c.data).doc.thrown
                           THEN "catch"
                           ELSE RenderStep(c.pc, c.doc, c.data).next] }
   ELSE {})
  \cup
  (IF c.pc = "end"
   THEN { [c EXCEPT !.calls = Append(@, "end"),
                    !.pending = @ \o [p \in 1..c.doc.page |-> PageChunk(p)]
                                  \o <<EndOfStream>>,
                    !.pc = "returned"] }
   ELSE {})
  \cup
  (IF c.pc = "catch"
   THEN { CallSettle([c EXCEPT !.pc = "returned"], "rejected",
                     Normalize(ThrownBy(c.engine))) }
   ELSE {})
  \cup
  (IF c.pending # <<>> /\ Head(c.pending) # EndOfStream
   THEN { [c EXCEPT !.chunks = Append(list, Head(c.pending)),
                    !.pending = Tail(@)] }
   ELSE {})
  \cup
  (IF c.pc = "returned" /\ c.pending # <<>> /\ Head(c.pending) = EndOfStream
   THEN { CallSettle([c EXCEPT !.pending = Tail(@)], "resolved",
                     Buffer(BufferConcat(list))) }
   ELSE {})

(* a call whose listeners use the chunk array of the first call *)
CallSteps_SharedChunks(c) == CallStepsOn(c, chunks)

(* line 56: const chunks = [] is a local of each call *)
CallSteps(c) == CallStepsOn(c, c.chunks)

(* a step of the second call *)
OtherStep ==
  /\ other' \in CallSteps(other)
  /\ UNCHANGED <<data, layout, engine, failAt, errored, pc, doc, prev, calls,
                 pending, chunks, settled, result, req,
                 form, san>>

(* records of one page and of two pages under the layouts below *)
PairRecords ==
  { Base,
    [Base EXCEPT !.photo = PhotoPng],
    [Base EXCEPT !.experience = <<FlowExp, FlowExp>>,
                 !.education = <<FlowEdu, FlowEdu>>,
                 !.skills = << [value |-> S_React] >>] }

PairLayouts ==
  { BaseLayout,
    [summaryLines |-> MaxSummaryLines, descLines |-> 1, nameLines |-> 1] }

InitPair ==
  /\ data \in PairRecords
  /\ layout \in PairLayouts
  /\ engine \in {"ok", "throwsError", "emitsError"}
  /\ failAt = 0
  /\ errored = FALSE
  /\ pc = "construct"
  /\ doc = NoDoc
  /\ prev = NoDoc
  /\ calls = <<>>
  /\ pending = <<>>
  /\ chunks = <<>>
  /\ settled = "pending"
  /\ result = NoResult
  /\ \E rec \in PairRecords, eng \in {"ok", "throwsValue"} :
       other = [NoCall EXCEPT !.data = rec, !.engine = eng, !.pc = "construct"]
  /\ req = NoRequest
  /\ form = NoForm
  /\ san = NoSanitize

NextPair ==
  \/ Next
  \/ OtherStep

SpecPair == InitPair /\ [][NextPair]_vars

----------------------------------------------------------------------------
(* POST /api/generate, app/api/generate/route.ts lines 22-115.  The handler's
   collaborators are seen from the handler: request.json() fails or yields
   the body, safeParse accepts or refuses it, sanitizeResumeData returns or
   throws, generateResumePDF resolves or rejects. *)

DigitChars == <<"0", "1", "2", "3", "4", "5", "6", "7", "8", "9">>

(* the decimal string of a number, as a client writes content-length *)
RECURSIVE Digits(_)
Digits(n) ==
  IF n < 10 THEN <<DigitChars[n + 1]>>
  ELSE Digits(n \div 10) \o <<DigitChars[(n % 10) + 1]>>

IsDigit(c) == \E i \in 1..10 : DigitChars[i] = c

RECURSIVE ParseDigits(_, _)
ParseDigits(str, acc) ==
  IF str = <<>> \/ ~IsDigit(Head(str)) THEN acc
  ELSE ParseDigits(Tail(str),
                   acc * 10 + (CHOOSE i \in 0..9 : DigitChars[i + 1] = Head(str)))

(* parseInt(str, 10): the leading digits, NaN when there is none *)
ParseInt(str) ==
  IF str = <<>> \/ ~IsDigit(Head(str)) THEN [nan |-> TRUE, value |-> 0]
  ELSE [nan |-> FALSE, value |-> ParseDigits(str, 0)]

(* line 26: contentLength && parseInt(contentLength, 10) > MAX_BODY_SIZE *)
TooLarge(contentLength) ==
  /\ Truthy(contentLength)
  /\ ~ParseInt(contentLength).nan
  /\ ParseInt(contentLength).value > MAX_BODY_SIZE

(* line 30 *)
SizeMessage ==
  <<"Maximum allowed size is ">> \o Digits(MAX_BODY_SIZE) \o <<" bytes">>

(* what the collaborators hand back *)
JsonValue == <<"body">>
SafeParse(body, value) ==
  [success |-> body = "valid", data |-> <<"parsed">> \o value]
Sanitized(value) == <<"sanitized">> \o value
PdfBuffer(value) == <<"%PDF">> \o value

(* NextResponse.json({error, message}, {status}) / new NextResponse(...) *)
Respond(r, status, error, message) ==
  [r EXCEPT !.pc = "done", !.status = status, !.error = error,
            !.message = message]

(* console.error(label, error) *)
ConsoleError(r, label, error) ==
  [r EXCEPT !.log = Append(@, [label |-> label, error |-> error])]

Invoke(r, fn, arg, ret) ==
  [r EXCEPT !.calls = Append(@, [fn |-> fn, arg |-> arg, ret |-> ret])]

RouteStep(r) ==
  /\ req' = r
  /\ UNCHANGED <<data, layout, engine, failAt, errored, pc, doc, prev, calls,
                 pending, chunks, settled, result, other, form, san>>

(* lines 25-34 *)
RouteCheckSize ==
  /\ req.pc = "size"
  /\ RouteStep(IF TooLarge(req.contentLength)
               THEN Respond(req, 413, "Request body too large", SizeMessage)
               ELSE [req EXCEPT !.pc = "json"])

(* lines 37-51 *)
RouteParseBody ==
  /\ req.pc = "json"
  /\ RouteStep(IF req.body = "notJson"
               THEN Respond(Invoke(req, "json", <<>>, <<"SyntaxError">>), 400,
                            "Invalid JSON", <<"SyntaxError">>)
               ELSE [Invoke(req, "json", <<>>, JsonValue)
                       EXCEPT !.pc = "validate"])

(* lines 54-69 *)
RouteValidate ==
  /\ req.pc = "validate"
  /\ RouteStep(IF SafeParse(req.body, JsonValue).success
               THEN [Invoke(req, "safeParse", JsonValue,
                            SafeParse(req.body, JsonValue).data)
                       EXCEPT !.pc = "sanitize",
                              !.validated = SafeParse(req.body, JsonValue).data]
               ELSE Respond(Invoke(req, "safeParse", JsonValue, <<"ZodError">>),
                            400, "Validation failed",
                            <<"The provided resume data contains validation errors">>))

(* line 72, and lines 103-113 when the sanitizer throws *)
RouteSanitize ==
  /\ req.pc = "sanitize"
  /\ RouteStep(IF req.sanitizer = "throws"
               THEN Respond(ConsoleError(Invoke(req, "sanitizeResumeData",
                                                req.validated, <<"TypeError">>),
                                         "Unexpected error in /api/generate:",
                                         <<"TypeError">>),
                            500, "Internal server error",
                            <<"An unexpected error occurred while processing your request">>)
               ELSE [Invoke(req, "sanitizeResumeData", req.validated,
                            Sanitized(req.validated))
                       EXCEPT !.pc = "generate",
                              !.sanitized = Sanitized(req.validated)])

(* the generator handed the validated data instead of the sanitized data *)
GeneratorInput_Validated(r) == r.validated

(* line 77: generateResumePDF(sanitizedData) *)
GeneratorInput(r) == r.sanitized

(* line 77: the call; the handler then awaits the promise *)
RouteGenerate ==
  /\ req.pc = "generate"
  /\ RouteStep([Invoke(req, "generateResumePDF", GeneratorInput(req),
                       IF req.generator = "resolves"
                       THEN PdfBuffer(GeneratorInput(req))
                       ELSE req.rejection)
                  EXCEPT !.pc = "await"])

(* lines 78-102: the promise has settled *)
RouteRespond ==
  /\ req.pc = "await"
  /\ RouteStep(IF req.generator = "rejects"
               THEN Respond(ConsoleError(req, "PDF generation failed:",
                                         req.rejection),
                            500, "PDF generation failed",
                            <<"An error occurred while generating the PDF resume">>)
               ELSE Respond(req, 200, "", req.calls[Len(req.calls)].ret))

(* content-length headers: absent, empty, not a number, and the numbers
   around the handler's limit and around 2 MB *)
TwoMegabytes == 2097152

ContentLengths ==
  {Undefined, <<>>, <<"a", "b", "c">>}
  \cup { Digits(n) : n \in (MAX_BODY_SIZE - ClRadius)..(MAX_BODY_SIZE + ClRadius) }
  \cup { Digits(n) : n \in (TwoMegabytes - ClRadius)..(TwoMegabytes + ClRadius) }

(* what generateResumePDF rejects with: an internal failure of the PDF
   library, and one whose message quotes the record being rendered *)
Rejections ==
  { <<"Error", "PDF crash">>,
    <<"Error", "cannot encode ">> \o S_Jane }

InitRoute ==
  /\ data = Base /\ layout = BaseLayout /\ engine = "ok"
  /\ failAt = 0
  /\ errored = FALSE
  /\ pc = "idle"
  /\ doc = NoDoc
  /\ prev = NoDoc
  /\ calls = <<>>
  /\ pending = <<>>
  /\ chunks = <<>>
  /\ settled = "pending"
  /\ result = NoResult
  /\ other = NoCall
  /\ form = NoForm
  /\ san = NoSanitize
  /\ \E cl \in ContentLengths, b \in {"notJson", "invalid", "valid"},
        sz \in {"ok", "throws"}, rj \in {<<>>} \cup Rejections :
       req = [NoRequest EXCEPT !.contentLength = cl, !.body = b,
                               !.sanitizer = sz,
                               !.generator = IF rj = <<>> THEN "resolves"
                                             ELSE "rejects",
                               !.rejection = rj,
                               !.pc = "size"]

NextRoute ==
  \/ RouteCheckSize
  \/ RouteParseBody
  \/ RouteValidate
  \/ RouteSanitize
  \/ RouteGenerate
  \/ RouteRespond

SpecRoute == InitRoute /\ [][NextRoute]_vars

----------------------------------------------------------------------------
(* The form, components/ResumeForm.tsx and PersonalInfoSection.tsx.  A submit
   event runs handleSubmit(onSubmit) of the last render: validation is
   asynchronous, then onSubmit runs with the isGenerating of that render.
   setIsGenerating changes the state; the button and the next closure see
   it once React has rendered again. *)

(* PersonalInfoSection.tsx line 21 *)
ClientPhotoLimit == 2 * 1024 * 1024

(* lib/schema.ts line 109 *)
PhotoMaxLength == 600000

S_DataPrefix == <<"d","a","t","a",":">>
S_Base64Mark == <<";","b","a","s","e","6","4",",">>
S_ImageJpeg == <<"i","m","a","g","e","/","j","p","e","g">>
S_ImageJpg == <<"i","m","a","g","e","/","j","p","g">>
S_ImagePng == <<"i","m","a","g","e","/","p","n","g">>
S_ImageWebp == <<"i","m","a","g","e","/","w","e","b","p">>

(* files the user may pick: a small one, the sizes around the client's limit *)
PhotoFiles ==
  [type : {S_ImageJpeg, S_ImagePng, S_ImageWebp},
   size : {1000} \cup (ClientPhotoLimit - PhRadius)..(ClientPhotoLimit + PhRadius)]

(* FileReader.readAsDataURL: the prefix and the length of the base64 payload,
   four characters for every three bytes, padded *)
ReadAsDataURL(file) ==
  [prefix |-> S_DataPrefix \o file.type \o S_Base64Mark,
   payload |-> 4 * ((file.size + 2) \div 3)]

DataUrlLength(url) == Len(url.prefix) + url.payload

(* lib/schema.ts lines 107-114 *)
PhotoSchemaAccepts(url) ==
  /\ DataUrlLength(url) <= PhotoMaxLength
  /\ url.prefix \in { S_DataPrefix \o t \o S_Base64Mark :
                        t \in {S_ImageJpeg, S_ImageJpg, S_ImagePng, S_ImageWebp} }

(* length of JSON.stringify(submissionData): the text fields, and the
   member "photo":"..." with its comma when a photo was chosen *)
BodyLength(photo) ==
  TextFieldsLength + (IF photo = <<>> THEN 0 ELSE 11 + DataUrlLength(photo))

(* PersonalInfoSection.tsx lines 17-33: handleFileChange and reader.onload;
   one choice of photo, made before the first submit *)
FormPhotoChange ==
  /\ form.handlers = <<>>
  /\ form.photo = <<>>
  /\ \E file \in PhotoFiles :
       /\ file.size <= ClientPhotoLimit
       /\ form' = [form EXCEPT !.photo = ReadAsDataURL(file)]
  /\ UNCHANGED <<data, layout, engine, failAt, errored, pc, doc, prev, calls,
                 pending, chunks, settled, result, other, req, san>>

FormStep(f) ==
  /\ form' = f
  /\ UNCHANGED <<data, layout, engine, failAt, errored, pc, doc, prev, calls,
                 pending, chunks, settled, result, other, req, san>>

(* ResumeForm.tsx lines 90 and 129-131: a click on the enabled button *)
FormSubmit ==
  /\ ~form.view
  /\ Len(form.handlers) < MaxSubmits
  /\ FormStep([form EXCEPT !.handlers =
                 Append(@, [pc |-> "validating", seen |-> form.view,
                            contentLength |-> 0, photo |-> <<>>,
                            status |-> 0])])

(* React renders the component again with the current state *)
FormRender ==
  /\ form.view # form.isGenerating
  /\ FormStep([form EXCEPT !.view = form.isGenerating])

(* lines 42-61: onSubmit up to the fetch *)
OnSubmit(f, i) ==
  IF f.handlers[i].seen
  THEN [f EXCEPT !.handlers[i].pc = "done"]
  ELSE [f EXCEPT !.isGenerating = TRUE,
                 !.error = <<>>,
                 !.handlers[i].pc = "fetching",
                 !.handlers[i].photo = f.photo,
                 !.handlers[i].contentLength = BodyLength(f.photo)]

(* handleSubmit: the resolver has finished; onSubmit runs for valid values *)
FormValidate(i) ==
  /\ i \in 1..Len(form.handlers)
  /\ form.handlers[i].pc = "validating"
  /\ \E valid \in BOOLEAN :
       FormStep(IF valid THEN OnSubmit(form, i)
                ELSE [form EXCEPT !.handlers[i].pc = "done"])

(* the finally block skipped *)
Finally_NoReset(f) == f

(* lines 83-85 *)
Finally(f) == [f EXCEPT !.isGenerating = FALSE]

(* lines 79-85 *)
CatchError(f, i, message) ==
  Finally([f EXCEPT !.error = message, !.handlers[i].pc = "done"])

(* what the server may answer to a request, app/api/generate/route.ts *)
Statuses(h) ==
  IF TooLarge(Digits(h.contentLength)) THEN {413}
  ELSE IF h.photo # <<>> /\ ~PhotoSchemaAccepts(h.photo) THEN {400}
  ELSE {200, 500}

(* lines 55-78: the fetch has settled *)
FormResponse(i) ==
  /\ i \in 1..Len(form.handlers)
  /\ form.handlers[i].pc = "fetching"
  /\ \/ FormStep(CatchError(form, i, <<"Failed to fetch">>))
     \/ \E st \in Statuses(form.handlers[i]) :
          FormStep(IF st = 200
                   THEN Finally([form EXCEPT !.handlers[i].pc = "done",
                                             !.handlers[i].status = st])
                   ELSE [form EXCEPT !.handlers[i].pc = "errorBody",
                                     !.handlers[i].status = st])

(* the error member of the route's JSON answers *)
ErrorOf(status) ==
  CASE status = 413 -> <<"Request body too large">>
    [] status = 400 -> <<"Validation failed">>
    [] OTHER -> <<"PDF generation failed">>

(* lines 63-68: response.json() has settled, with the body or with {} *)
FormErrorBody(i) ==
  /\ i \in 1..Len(form.handlers)
  /\ form.handlers[i].pc = "errorBody"
  /\ \E parsable \in BOOLEAN :
       FormStep(CatchError(form, i,
                           IF parsable THEN ErrorOf(form.handlers[i].status)
                           ELSE <<"Failed to generate PDF: ", "statusText">>))

InitForm ==
  /\ data = Base /\ layout = BaseLayout /\ engine = "ok"
  /\ failAt = 0
  /\ errored = FALSE
  /\ pc = "idle"
  /\ doc = NoDoc
  /\ prev = NoDoc
  /\ calls = <<>>
  /\ pending = <<>>
  /\ chunks = <<>>
  /\ settled = "pending"
  /\ result = NoResult
  /\ other = NoCall
  /\ req = NoRequest
  /\ form = NoForm
  /\ san = NoSanitize

NextForm ==
  \/ FormPhotoChange
  \/ FormSubmit
  \/ FormRender
  \/ \E i \in 1..MaxSubmits : FormValidate(i)
  \/ \E i \in 1..MaxSubmits : FormResponse(i)
  \/ \E i \in 1..MaxSubmits : FormErrorBody(i)

SpecForm == InitForm /\ [][NextForm]_vars

(* every step of a submission under way is eventually taken: validation
   finishes, the fetch settles, the error body is read, React renders *)
FormFairness ==
  /\ WF_vars(FormRender)
  /\ \A i \in 1..MaxSubmits :
       /\ WF_vars(FormValidate(i))
       /\ WF_vars(FormResponse(i))
       /\ WF_vars(FormErrorBody(i))

SpecFormLive == SpecForm /\ FormFairness

----------------------------------------------------------------------------
(* Calls of sanitizeResumeData: by the route with the data resumeSchema
   returned (route.ts lines 54-72), and directly with a record the caller
   built, as lib/sanitize.test.ts does. *)

SanitizeStep(next) ==
  /\ san' = next
  /\ UNCHANGED <<data, layout, engine, failAt, errored, pc, doc, prev, calls,
                 pending, chunks, settled, result, other, req, form>>

(* sanitizeResumeData(data) *)
SanitizeCall ==
  /\ san.pc = "call"
  /\ SanitizeStep([san EXCEPT !.output = SanitizeResult(san.input),
                              !.pc = IF SanitizeThrows(san.input)
                                     THEN "threw" ELSE "returned"])

(* sanitizeResumeData applied to the record it returned *)
SanitizeAgain ==
  /\ san.pc = "returned"
  /\ SanitizeStep([san EXCEPT !.again = SanitizeResult(san.output.value),
                              !.pc = "again"])

InitSanitize ==
  /\ data = Base /\ layout = BaseLayout /\ engine = "ok"
  /\ failAt = 0
  /\ errored = FALSE
  /\ pc = "idle"
  /\ doc = NoDoc
  /\ prev = NoDoc
  /\ calls = <<>>
  /\ pending = <<>>
  /\ chunks = <<>>
  /\ settled = "pending"
  /\ result = NoResult
  /\ other = NoCall
  /\ req = NoRequest
  /\ form = NoForm
  /\ \E raw \in SanitizeInputs :
       \/ san = [NoSanitize EXCEPT !.pc = "call", !.via = "direct",
                                   !.input = raw]
       \/ /\ SchemaAccepts(raw)
          /\ san = [NoSanitize EXCEPT !.pc = "call", !.via = "route",
                                      !.input = SchemaData(raw)]

NextSanitize ==
  \/ SanitizeCall
  \/ SanitizeAgain

SpecSanitize == InitSanitize /\ [][NextSanitize]_vars

----------------------------------------------------------------------------
(* Vocabulary of the properties *)

IsPrefix(s, t) == Len(s) <= Len(t) /\ SubSeq(t, 1, Len(s)) = s

LastCall == IF calls = <<>> THEN "" ELSE calls[Len(calls)]

(* the writes of the given role, in the order they were made *)
Writes(role) == SelectSeq(doc.log, LAMBDA e : e.role = role)

(* index of the first text written after event i, 0 when there is none *)
RECURSIVE NextText(_, _)
NextText(log, i) ==
  IF i >= Len(log) THEN 0
  ELSE IF log[i + 1].op = "text" THEN i + 1
  ELSE NextText(log, i + 1)

(* the call ran to its end: nothing left to emit *)
Finished == pc = "returned" /\ pending = <<>>

(* the order section 4.2 of the specification fixes *)
SpecOrder ==
  <<"Header", "Summary", "Experience", "Education", "Languages", "Skills",
    "Certificates", "end">>

(* the order of lines 64-72 *)
CodeOrder ==
  <<"Header", "Summary", "Experience", "Education", "Skills", "Certificates",
    "end">>

----------------------------------------------------------------------------
(* C1: the section renderers are invoked once each in the order Header,
   Summary, Experience, Education, Languages, Skills, Certificates, and
   doc.end() once after the last of them.  Stated as: the calls made so far
   are always a prefix of that order, and a resolved call has made them all.
   The code has no Languages renderer, so the formula is violated. *)
C1_SectionOrder ==
  /\ IsPrefix(calls, SpecOrder)
  /\ (settled = "resolved" => calls = SpecOrder)

----------------------------------------------------------------------------
(* C2: no section title is left on one page with the first body write of its
   section on the next: the first text written after a title starts on the
   title's page.  Violated for WORK EXPERIENCE and EDUCATION, where the check
   before the first entry can break the page after the title is written. *)
C2_NoOrphanTitle ==
  \A i \in 1..Len(doc.log) :
    (doc.log[i].role = "title" /\ NextText(doc.log, i) # 0)
      => doc.log[NextText(doc.log, i)].page = doc.log[i].page

----------------------------------------------------------------------------
(* C3: checkPageBreak appends exactly one page and puts the cursor at the top
   margin when less than 100pt remain, and changes neither page nor cursor
   when 100pt or more remain. *)
C3_CheckPageBreak ==
  pc = "pb_done" =>
    IF PAGE_HEIGHT - MARGIN_BOTTOM - prev.y < MIN_REMAINING
    THEN doc.page = prev.page + 1 /\ doc.y = MARGIN_TOP
    ELSE doc.page = prev.page /\ doc.y = prev.y /\ doc.x = prev.x

(* a break made one hundredth of a point under the threshold *)
C3_Witness ==
  /\ pc = "pb_done"
  /\ PAGE_HEIGHT - MARGIN_BOTTOM - prev.y = MIN_REMAINING - 1
  /\ doc.page = prev.page + 1

----------------------------------------------------------------------------
(* C4: every section title and the first write of every experience and
   education entry comes immediately after a page-break check, at the cursor
   that check left, with at least 100pt remaining on the page. *)
Guarded == {"title", "company", "institution"}

C4_CheckBeforeWrite ==
  \A i \in 1..Len(doc.log) :
    doc.log[i].role \in Guarded =>
      /\ i > 1
      /\ doc.log[i - 1].op = "check"
      /\ doc.log[i - 1].y2 = doc.log[i].y
      /\ doc.log[i - 1].page2 = doc.log[i].page
      /\ PAGE_HEIGHT - MARGIN_BOTTOM - doc.log[i].y >= MIN_REMAINING

(* a second experience entry that starts a new page because of its check *)
C4_Witness ==
  \E i \in 2..Len(doc.log) :
    /\ doc.log[i].role = "company"
    /\ doc.log[i - 1].op = "check"
    /\ doc.log[i - 1].page2 = doc.log[i - 1].page + 1
    /\ doc.log[i - 2].op = "text"

----------------------------------------------------------------------------
(* C5: a section renderer whose data is empty leaves the document exactly as
   it found it (no write, no page, no cursor movement), and a record whose
   arrays are all empty renders the header and PROFESSIONAL SUMMARY only. *)
EmptySummary == ~Truthy(data.summary) \/ Trim(data.summary) = <<>>

C5_EmptySectionElided ==
  /\ (LastCall = "Summary" /\ EmptySummary) => doc = prev
  /\ (LastCall = "Experience" /\ data.experience = <<>>) => doc = prev
  /\ (LastCall = "Education" /\ data.education = <<>>) => doc = prev
  /\ (LastCall = "Skills" /\ data.skills = <<>>) => doc = prev
  /\ (LastCall = "Certificates" /\ data.certificates = <<>>) => doc = prev
  /\ ( /\ data.experience = <<>> /\ data.education = <<>>
       /\ data.languages = <<>> /\ data.skills = <<>>
       /\ data.certificates = <<>>
       /\ ~EmptySummary /\ settled = "resolved" )
     => /\ [k \in 1..Len(Writes("title")) |-> Writes("title")[k].str]
             = <<T_SUMMARY>>
        /\ \A i \in 1..Len(doc.log) :
             doc.log[i].op = "text" =>
               doc.log[i].role \in
                 {"name", "contact", "link", "title", "summary"}

(* generateSkills has returned for a record whose arrays are all empty: the
   document is as generateEducation left it, with one title in it *)
C5_Witness ==
  /\ LastCall = "Skills"
  /\ data.skills = <<>>
  /\ data.experience = <<>>
  /\ data.education = <<>>
  /\ doc = prev
  /\ Len(Writes("title")) = 1

----------------------------------------------------------------------------
(* C6: the duration written for an experience entry is
   "<startMonth> <startYear> - Present" when isCurrent is true and
   "<startMonth> <startYear> - <endMonth> <endYear>" otherwise (the dash is an
   en dash); an ongoing entry never shows its end date.  Stated for entries
   that are ongoing or carry an end date.  The code writes exp.duration, a
   field such entries do not have, so the formula is violated. *)
Called(name) == \E k \in 1..Len(calls) : calls[k] = name

ComposedExperienceDuration(exp) ==
  Interp(Prop(exp, "startMonth")) \o <<" ">> \o Interp(Prop(exp, "startYear"))
    \o S_EnDash
    \o (IF exp.isCurrent THEN S_Present
        ELSE Interp(Prop(exp, "endMonth")) \o <<" ">>
               \o Interp(Prop(exp, "endYear")))

C6_ExperienceDuration ==
  (Called("Experience") /\ pc # "catch") =>
    \A k \in 1..Len(data.experience) :
      (data.experience[k].isCurrent \/ "endYear" \in DOMAIN data.experience[k])
        => /\ Len(Writes("duration")) >= k
           /\ Writes("duration")[k].str
                = ComposedExperienceDuration(data.experience[k])

----------------------------------------------------------------------------
(* C7: the duration written for an education entry is "<startYear> - Present"
   when isCurrent is true and "<startYear> - <endYear>" otherwise (en dash).
   Stated for entries that carry isCurrent and are ongoing or have an end
   year.  The code writes edu.duration, so the formula is violated. *)
ComposedEducationDuration(edu) ==
  Interp(Prop(edu, "startYear")) \o S_EnDash
    \o (IF edu.isCurrent THEN S_Present ELSE Interp(Prop(edu, "endYear")))

HasEducationDates(edu) ==
  /\ "isCurrent" \in DOMAIN edu
  /\ (edu.isCurrent \/ "endYear" \in DOMAIN edu)

C7_EducationDuration ==
  (Called("Education") /\ pc # "catch") =>
    \A k \in 1..Len(data.education) :
      HasEducationDates(data.education[k])
        => /\ Len(Writes("eduDuration")) >= k
           /\ Writes("eduDuration")[k].str
                = ComposedEducationDuration(data.education[k])

----------------------------------------------------------------------------
(* C8: a header link of type git, linkedin or portfolio is written as
   "Git Repo: <url>", "LinkedIn: <url>" or "Portfolio: <url>", whatever its
   otherLabel.  The code capitalises the type ("Git", "Linkedin"), so the
   formula is violated. *)
FixedLabel(type) ==
  CASE type = S_git -> S_GitRepo
    [] type = S_linkedin -> S_LinkedIn
    [] type = S_portfolio -> S_Portfolio
    [] OTHER -> S_Other

C8_FixedLinkLabels ==
  (Called("Header") /\ pc # "catch") =>
    \A k \in 1..Len(data.links) :
      data.links[k].type \in {S_git, S_linkedin, S_portfolio}
        => /\ Len(Writes("link")) >= k
           /\ Writes("link")[k].str
                = FixedLabel(data.links[k].type) \o S_Colon
                    \o data.links[k].url

----------------------------------------------------------------------------
(* C9: a header link of type other is labelled with its otherLabel, first
   character upper-cased, when that label is non-blank after trimming, and
   with "Other" when the label is absent, empty or blank.  The code never
   reads otherLabel, so the formula is violated by a link labelled "blog". *)
UsableLabel(link) ==
  Truthy(Prop(link, "otherLabel")) /\ Trim(link.otherLabel) # <<>>

OtherLabel(link) ==
  IF UsableLabel(link)
  THEN <<ToUpperChar(Head(Trim(link.otherLabel)))>>
         \o Tail(Trim(link.otherLabel))
  ELSE S_Other

C9_OtherLinkLabel ==
  (Called("Header") /\ pc # "catch") =>
    \A k \in 1..Len(data.links) :
      data.links[k].type = S_other
        => /\ Len(Writes("link")) >= k
           /\ Writes("link")[k].str
                = OtherLabel(data.links[k]) \o S_Colon \o data.links[k].url

----------------------------------------------------------------------------
(* C10: a photo that cannot be decoded or placed never makes the call reject:
   no image is placed, the name, contact and link lines of the header are
   written all the same, every later section renderer and doc.end() run, and
   the promise resolves with the collected chunks. *)
NoImagePlaced == \A i \in 1..Len(doc.log) : doc.log[i].op # "image"

C10_PhotoFailureTolerated ==
  data.photo \in BadPhotos =>
    /\ pc # "catch"
    /\ settled # "rejected"
    /\ Called("Header") =>
         /\ NoImagePlaced
         /\ ~doc.thrown
         /\ Len(Writes("name")) = 1
         /\ Len(Writes("contact")) = 1
         /\ Len(Writes("link")) = Len(data.links)
    /\ Finished =>
         /\ calls = CodeOrder
         /\ settled = "resolved"
         /\ result = Buffer(BufferConcat(chunks))
         /\ result.bytes # <<>>

(* a call whose photo made doc.image throw has resolved after all sections *)
C10_Witness ==
  /\ data.photo \in {PhotoWebp, PhotoGarbage}
  /\ settled = "resolved"
  /\ calls = CodeOrder
  /\ Len(Writes("contact")) = 1

----------------------------------------------------------------------------
(* C11: when a photo is present the cursor is at or below the photo's bottom
   edge (top margin + photo height) once the header has finished, whatever
   the number of link lines and the height of the header text, and every
   write a later section makes on page 1 lies at or below that edge. *)
PhotoBottomEdge == MARGIN_TOP + PHOTO_SIZE

HeaderRoles == {"photo", "name", "contact", "link"}

C11_CursorBelowPhoto ==
  (Truthy(data.photo) /\ Called("Header") /\ pc # "catch") =>
    /\ LastCall = "Header" => doc.y >= PhotoBottomEdge
    /\ \A i \in 1..Len(doc.log) :
         ( /\ doc.log[i].op \in {"text", "line"}
           /\ doc.log[i].role \notin HeaderRoles
           /\ doc.log[i].page = 1 )
           => doc.log[i].y >= PhotoBottomEdge

(* a placed photo taller than the header text: the section title that
   follows the header is written on page 1, below the photo *)
C11_Witness ==
  /\ data.photo = PhotoPng
  /\ Len(data.links) = MaxLinks
  /\ LastCall = "Summary"
  /\ \E i \in 1..(Len(doc.log) - 1) :
       /\ doc.log[i].op = "image"
       /\ doc.log[i + 1].role = "name"
  /\ \E i \in 1..Len(doc.log) :
       /\ doc.log[i].role = "title"
       /\ doc.log[i].page = 1
       /\ doc.log[i].y = PhotoBottomEdge + 1000 + 15 * FONT_CONTACT * 10

----------------------------------------------------------------------------
(* C12: when constructing the document throws, no section renderer runs, no
   buffer is returned and the promise is rejected: with the thrown value
   itself when it is an Error, and with a new Error "Unknown error during PDF
   generation" when it is not. *)
ConstructorThrows == engine \in {"throwsError", "throwsValue"}

C12_ConstructorFailure ==
  ConstructorThrows =>
    /\ calls = <<>>
    /\ doc = NoDoc
    /\ chunks = <<>>
    /\ settled # "resolved"
    /\ pc = "returned" =>
         /\ settled = "rejected"
         /\ engine = "throwsError" => result = Thrown
         /\ engine = "throwsValue" =>
              result = Error("Unknown error during PDF generation")

(* the constructor threw a value that is no Error and the call is over *)
C12_Witness ==
  /\ engine = "throwsValue"
  /\ pc = "returned"
  /\ settled = "rejected"
  /\ result.kind = "Error"

----------------------------------------------------------------------------
(* C13: when a text or line-drawing write of a section renderer throws, the
   render fails as a whole: nothing is written after the failed write, no
   later section renderer is called, doc.end() is not called, and the promise
   is rejected (never resolved), so the chunks collected so far are never
   returned. *)
WriteThrows == engine \in {"writeThrowsError", "writeThrowsValue"}

C13_WriteFailureAborts ==
  (WriteThrows /\ doc.thrown) =>
    /\ Len(doc.log) = failAt - 1
    /\ prev.thrown = FALSE
    /\ pc \in {"catch", "returned"}
    /\ ~Called("end")
    /\ pending \in {<<>>, <<FileHeader>>}
    /\ settled # "resolved"
    /\ pc = "returned" =>
         /\ settled = "rejected"
         /\ result = Normalize(Thrown)

(* a write of generateEducation threw after a chunk had been collected: the
   call is rejected and Skills and Certificates never ran *)
C13_Witness ==
  /\ WriteThrows
  /\ doc.thrown
  /\ LastCall = "Education"
  /\ chunks = <<FileHeader>>
  /\ settled = "rejected"

----------------------------------------------------------------------------
(* C14: whatever the order of the engine's data, end and error events and of
   a synchronous throw, the promise settles at most once; it is resolved only
   by the end event, with the bytes of the chunks the engine emitted before
   it, in the order it emitted them; and the caller holds nothing while the
   promise is pending. *)
EmittedBytes ==
  BufferConcat(<<FileHeader>> \o [p \in 1..doc.page |-> PageChunk(p)])

C14_SettlesOnce ==
  [][ /\ settled # "pending" => (settled' = settled /\ result' = result)
      /\ settled = "pending" => result = NoResult
      /\ (settled = "pending" /\ settled' = "resolved") =>
           /\ pending # <<>>
           /\ Head(pending) = EndOfStream
           /\ Called("end")
           /\ result' = Buffer(EmittedBytes) ]_vars

(* the engine emitted "error" after "end": both resolve and reject were
   called and the promise kept the buffer it was resolved with *)
C14_Witness ==
  /\ engine = "emitsError"
  /\ errored
  /\ settled = "resolved"
  /\ result = Buffer(EmittedBytes)
  /\ Len(chunks) >= 2

----------------------------------------------------------------------------
(* C15: calls of generateResumePDF whose steps and engine events interleave
   are independent: each call has its own document and chunk list, a call
   that resolves has rendered exactly what it renders when it runs alone and
   resolves with the bytes of its own chunks, and a call whose engine does
   not fail is never rejected because the other call failed. *)
SoloDoc(rec) ==
  generateCertificates(
    generateSkills(
      generateEducation(
        generateWorkExperience(
          generateProfessionalSummary(generateHeader(NewDoc, rec), rec),
          rec),
        rec),
      rec),
    rec)

OwnChunks(d) == <<FileHeader>> \o [p \in 1..d.page |-> PageChunk(p)]

C15_CallsIndependent ==
  /\ IsPrefix(chunks, OwnChunks(doc))
  /\ IsPrefix(other.chunks, OwnChunks(other.doc))
  /\ settled = "resolved" =>
       /\ doc = SoloDoc(data)
       /\ result = Buffer(BufferConcat(OwnChunks(doc)))
  /\ other.settled = "resolved" =>
       /\ other.doc = SoloDoc(other.data)
       /\ other.result = Buffer(BufferConcat(OwnChunks(other.doc)))
  /\ engine = "ok" =>
       /\ settled # "rejected"
       /\ Finished => settled = "resolved"
  /\ other.engine = "ok" =>
       /\ other.settled # "rejected"
       /\ (other.pc = "returned" /\ other.pending = <<>>)
            => other.settled = "resolved"

(* both calls have resolved, one with two pages and one with a single page *)
C15_Witness ==
  /\ settled = "resolved"
  /\ other.settled = "resolved"
  /\ doc.page = 2
  /\ other.doc.page = 1
  /\ result # other.result

----------------------------------------------------------------------------
(* C16: a record with languages gets a LANGUAGES section whose body is one
   single text: the entries "<language> - <Level>" (em dash, level with its
   first letter upper-cased) in array order, joined by bullets.  The code has
   no renderer for data.languages, so the formula is violated. *)
LanguageEntry(l) == Interp(l.language) \o S_EmDash \o capitalizeFirst(l.level)

LanguagesText(langs) ==
  Join([k \in 1..Len(langs) |-> LanguageEntry(langs[k])], S_Bullet)

C16_LanguagesSection ==
  (data.languages # <<>> /\ settled = "resolved") =>
    /\ \E i \in 1..Len(doc.log) :
         doc.log[i].role = "title" /\ doc.log[i].str = T_LANGUAGES
    /\ Len(Writes("languages")) = 1
    /\ Writes("languages")[1].str = LanguagesText(data.languages)

----------------------------------------------------------------------------
(* C17: the name line of the header is "<firstName> <lastName> (<nickname>)"
   when the record has a nickname, and "<firstName> <lastName>" without any
   parenthesis when the nickname is absent or empty. *)
NameJaneDoe == <<"J","a","n","e"," ","D","o","e">>
NameJaneDoeJD == NameJaneDoe \o <<" ","(","J","D",")">>

C17_NameLine ==
  (Called("Header") /\ ~WriteThrows) =>
    /\ Len(Writes("name")) = 1
    /\ Truthy(data.nickname) =>
         Writes("name")[1].str
           = data.firstName \o <<" ">> \o data.lastName \o <<" ", "(">>
               \o data.nickname \o <<")">>
    /\ data.nickname \in {Undefined, <<>>} =>
         /\ Writes("name")[1].str
              = data.firstName \o <<" ">> \o data.lastName
         /\ \A k \in 1..Len(Writes("name")[1].str) :
              Writes("name")[1].str[k] \notin {"(", ")"}

(* the header of a record with nickname "JD" has been written *)
C17_Witness ==
  /\ data.nickname = S_JD
  /\ LastCall = "Header"
  /\ Len(Writes("name")) = 1
  /\ Writes("name")[1].str = NameJaneDoeJD

----------------------------------------------------------------------------
(* C18: certificates are written in array order, "<name> - <issuer> (<year>)"
   (em dash) when the year is present and not blank, "<name> - <issuer>"
   without a parenthesised group when the year is absent, empty or only
   whitespace; 0.3 lines of spacing separate consecutive certificates and
   none follows the last.  The code tests cert.year for truthiness only, so a
   whitespace-only year is written in parentheses and the formula is
   violated. *)
NonBlank(v) == Truthy(v) /\ Trim(v) # <<>>

CertificateLine(cert) ==
  IF NonBlank(Prop(cert, "year"))
  THEN cert.name \o S_EmDash \o cert.issuer \o <<" ", "(">> \o cert.year
         \o <<")">>
  ELSE cert.name \o S_EmDash \o cert.issuer

C18_CertificateLines ==
  (LastCall = "Certificates" /\ ~doc.thrown) =>
    /\ Len(Writes("certificate")) = Len(data.certificates)
    /\ \A k \in 1..Len(data.certificates) :
         /\ Writes("certificate")[k].str = CertificateLine(data.certificates[k])
         /\ k > 1 =>
              Writes("certificate")[k].y
                = Writes("certificate")[k - 1].y2 + 30 * FONT_CERTIFICATES
         /\ k = Len(data.certificates) =>
              doc.y = Writes("certificate")[k].y2

----------------------------------------------------------------------------
(* C19: POST /api/generate runs size check, JSON parse, schema validation,
   sanitization and PDF generation in that order, each step on the output of
   the one before, and a failing step ends the request: a 413 calls nothing,
   invalid JSON calls none of safeParse, sanitize, generate, and a validation
   failure calls neither sanitize nor generate. *)
StepOrder == <<"json", "safeParse", "sanitizeResumeData", "generateResumePDF">>

C19_RoutePipeline ==
  /\ IsPrefix([k \in 1..Len(req.calls) |-> req.calls[k].fn], StepOrder)
  /\ req.pc = "size" => req.calls = <<>>
  /\ req.status = 413 => req.calls = <<>>
  /\ Len(req.calls) >= 2 => req.calls[2].arg = req.calls[1].ret
  /\ Len(req.calls) >= 3 => req.calls[3].arg = req.calls[2].ret
  /\ Len(req.calls) >= 4 => req.calls[4].arg = req.calls[3].ret
  /\ req.pc = "done" =>
       /\ (~TooLarge(req.contentLength) /\ req.body = "notJson") =>
            (Len(req.calls) = 1 /\ req.status = 400)
       /\ (~TooLarge(req.contentLength) /\ req.body = "invalid") =>
            (Len(req.calls) = 2 /\ req.status = 400)
       /\ req.status = 200 <=>
            ( /\ Len(req.calls) = 4
              /\ req.generator = "resolves"
              /\ req.message = req.calls[4].ret )
       /\ Len(req.calls) = 3 => (req.sanitizer = "throws" /\ req.status = 500)

(* a request went through all four steps and was answered 200 *)
C19_Witness ==
  /\ req.pc = "done"
  /\ req.status = 200
  /\ Len(req.calls) = 4
  /\ req.calls[4].arg = Sanitized(<<"parsed">> \o JsonValue)

----------------------------------------------------------------------------
(* C20: POST /api/generate answers 413 exactly when the content-length header
   is present and greater than 2097152 bytes: exactly 2097152 is accepted,
   2097153 is rejected, an absent header is never rejected for size, and the
   413 message is "Maximum allowed size is 2097152 bytes". *)
OverTwoMegabytes(contentLength) ==
  /\ contentLength # Undefined
  /\ ~ParseInt(contentLength).nan
  /\ ParseInt(contentLength).value > TwoMegabytes

C20_SizeLimit ==
  req.pc \notin {"idle", "size"} =>
    /\ req.status = 413 <=> OverTwoMegabytes(req.contentLength)
    /\ req.status = 413 =>
         req.message = <<"Maximum allowed size is ">> \o Digits(TwoMegabytes)
                         \o <<" bytes">>

----------------------------------------------------------------------------
(* C21: when generateResumePDF rejects, POST /api/generate answers 500 with
   the fixed body "PDF generation failed" / "An error occurred while
   generating the PDF resume", and the response and the log output are the
   same whatever the rejection holds: no error detail reaches either. *)
GenerationFailed == req.pc = "done" /\ req.error = "PDF generation failed"

C21_Response ==
  GenerationFailed =>
    /\ req.status = 500
    /\ req.message = <<"An error occurred while generating the PDF resume">>

C21_GenericFailure ==
  /\ C21_Response
  /\ GenerationFailed =>
       \A k \in 1..Len(req.log) : req.log[k].error \notin Rejections

----------------------------------------------------------------------------
(* C22: from one ResumeForm at most one request to /api/generate is in
   flight at any time, whatever the interleaving of submit events,
   validation, renders and responses. *)
InFlight == { i \in 1..Len(form.handlers) : form.handlers[i].pc = "fetching" }

C22_OneRequestInFlight == Cardinality(InFlight) <= 1

----------------------------------------------------------------------------
(* C23: after every submission that starts generating, whatever the
   response (a PDF, an error response, an unparsable error body, a network
   failure), isGenerating eventually returns to false and the button is
   enabled again. *)
C23_ButtonReenabled ==
  (InFlight # {}) ~> (~form.isGenerating /\ ~form.view)

(* a submission was answered with an error whose body could not be read,
   and the button is enabled again *)
C23_Witness ==
  /\ \E i \in 1..Len(form.handlers) :
       /\ form.handlers[i].pc = "done"
       /\ form.handlers[i].status = 500
  /\ form.error = <<"Failed to generate PDF: ", "statusText">>
  /\ ~form.isGenerating
  /\ ~form.view

----------------------------------------------------------------------------
(* C25: every photo file the upload control accepts (JPEG, PNG or WebP, at
   most 2 MB) yields a submission the server does not reject for size:
   neither the 413 guard nor the schema's photo length limit fires. *)
Sent == { i \in 1..Len(form.handlers) : form.handlers[i].contentLength > 0 }

C25_AcceptedPhotoFits ==
  \A i \in Sent :
    form.handlers[i].photo # <<>> =>
      /\ ~TooLarge(Digits(form.handlers[i].contentLength))
      /\ DataUrlLength(form.handlers[i].photo) <= PhotoMaxLength

----------------------------------------------------------------------------
(* C24: sanitizeResumeData returns a record in which every string field
   equals the input with the control characters removed and then trimmed,
   interior newlines and tabs kept; arrays keep length and order; link
   type, otherLabel presence, isCurrent, language level and photo pass
   through unchanged. *)

(* r is t without its leading and trailing whitespace *)
TrimmedOf(r, t) ==
  \E i \in 1..(Len(t) + 1) : \E j \in (i - 1)..Len(t) :
    /\ r = SubSeq(t, i, j)
    /\ \A k \in 1..(i - 1) : t[k] \in Whitespace
    /\ \A k \in (j + 1)..Len(t) : t[k] \in Whitespace
    /\ r # <<>> => (r[1] \notin Whitespace /\ r[Len(r)] \notin Whitespace)

(* out is the string v without control characters, trimmed *)
IsCleaned(out, v) ==
  /\ \A k \in 1..Len(out) : out[k] \notin ControlChars
  /\ TrimmedOf(out, SelectSeq(v, NotControl))

OptionalOf(kind) ==
  CASE kind = "top" -> {"nickname"}
    [] kind = "links" -> {"otherLabel"}
    [] kind = "experience" -> {"endMonth", "endYear"}
    [] kind = "projects" -> {"detail"}
    [] kind = "education" -> {"fieldOfStudy", "endYear", "description"}
    [] kind = "certificates" -> {"year"}
    [] OTHER -> {}

PassedOf(kind) ==
  CASE kind = "top" -> {"photo"}
    [] kind = "links" -> {"type"}
    [] kind = "experience" -> {"isCurrent"}
    [] kind = "education" -> {"isCurrent"}
    [] kind = "languages" -> {"level"}
    [] OTHER -> {}

(* an optional field read as the claim words it: a string is cleaned,
   an absent value stays absent *)
OptionalAsString(out, v) ==
  IF v = Undefined THEN out = Undefined
  ELSE out # Undefined /\ IsCleaned(out, v)

(* an optional field as the tests word it: undefined for a falsy source *)
OptionalOrUndefined(out, v) ==
  IF Truthy(v) THEN IsCleaned(out, v) ELSE out = Undefined

EntryClean(out, in, kind, OptionalOk(_, _)) ==
  /\ \A name \in RequiredOf(kind) : IsCleaned(out[name], in[name])
  /\ \A name \in OptionalOf(kind) : OptionalOk(out[name], Prop(in, name))
  /\ \A name \in PassedOf(kind) : out[name] = Prop(in, name)

EntriesClean(out, in, kind, OptionalOk(_, _)) ==
  /\ Len(out[kind]) = Len(in[kind])
  /\ \A k \in 1..Len(out[kind]) :
       EntryClean(out[kind][k], in[kind][k], kind, OptionalOk)

RecordClean(out, in, OptionalOk(_, _)) ==
  /\ EntryClean(out, in, "top", OptionalOk)
  /\ \A kind \in {"links", "experience", "education", "languages", "skills",
                  "certificates"} : EntriesClean(out, in, kind, OptionalOk)
  /\ \A k \in 1..Len(out.experience) :
       EntriesClean(out.experience[k], in.experience[k], "projects", OptionalOk)

Returned == san.pc \in {"returned", "again"}

----------------------------------------------------------------------------
(* C28: for every record accepted by resumeSchema, sanitizeResumeData
   returns a record without throwing, also with non-empty experience,
   education and languages arrays. *)
C28_SanitizeNeverThrows ==
  (san.via = "route" /\ san.pc # "call") => ~san.output.threw

----------------------------------------------------------------------------
(* C30: in the output of sanitizeResumeData every optional string field is
   either undefined or a non-empty string, for every input; equivalently
   sanitizeResumeData applied twice gives the same record as applied once. *)
OptionalsDefinite(obj, kind) ==
  \A name \in OptionalOf(kind) : obj[name] # <<>>

OptionalsDefiniteIn(obj, kind) ==
  \A k \in 1..Len(obj[kind]) : OptionalsDefinite(obj[kind][k], kind)

C30_OptionalsUndefinedOrNonEmpty ==
  /\ Returned =>
       /\ OptionalsDefinite(san.output.value, "top")
       /\ \A kind \in {"links", "experience", "education", "certificates"} :
            OptionalsDefiniteIn(san.output.value, kind)
       /\ \A k \in 1..Len(san.output.value.experience) :
            OptionalsDefiniteIn(san.output.value.experience[k], "projects")
  /\ san.pc = "again" =>
       (~san.again.threw /\ san.again.value = san.output.value)

----------------------------------------------------------------------------
(* C26: a photo is placed in a 110 x 110 pt box whose top-right corner is at
   (page width - right margin, top margin), outside the text flow; every
   header text write (name, contact, links) is constrained to
   content width - photo width - gap, and the text of the later sections is
   laid out on the full content width. *)
NominalPhotoSize == 11000

(* the writes of later sections that start at the left margin and have the
   line to themselves *)
FullWidthRoles ==
  {"title", "summary", "duration", "position", "description", "projectsLabel",
   "eduDuration", "degree", "eduDescription", "languages", "skills",
   "certificate"}

PhotoLayout(photoSize) ==
  (Truthy(data.photo) /\ Called("Header") /\ ~doc.thrown) =>
    \A i \in 1..Len(doc.log) :
      /\ doc.log[i].op = "image" =>
           /\ doc.log[i].width = photoSize
           /\ doc.log[i].x + photoSize = PAGE_WIDTH - MARGIN_RIGHT
           /\ doc.log[i].y = MARGIN_TOP
           /\ doc.log[i].y2 = MARGIN_TOP
           /\ doc.log[i + 1].role = "name" /\ doc.log[i + 1].y = MARGIN_TOP
      /\ doc.log[i].role \in {"name", "contact", "link"} =>
           doc.log[i].width = CONTENT_WIDTH - photoSize - PHOTO_GAP
      /\ doc.log[i].role \in FullWidthRoles =>
           doc.log[i].width = CONTENT_WIDTH

C26_PhotoBox == PhotoLayout(NominalPhotoSize)

----------------------------------------------------------------------------
(* C27: in an experience entry each project writes one bulleted name line,
   followed by a detail line exactly when its detail is present and
   non-blank after trimming; spacing is inserted between consecutive
   experience entries and between consecutive projects, and not after the
   last one. *)
RECURSIVE ProjectLines(_)
ProjectLines(projects) ==
  IF projects = <<>> THEN <<>>
  ELSE << [role |-> "projectName",
           str |-> <<"bullet", " ">> \o Head(projects).name] >>
       \o (IF NonBlank(Prop(Head(projects), "detail"))
           THEN << [role |-> "projectDetail", str |-> Head(projects).detail] >>
           ELSE <<>>)
       \o ProjectLines(Tail(projects))

RECURSIVE AllProjectLines(_)
AllProjectLines(exps) ==
  IF exps = <<>> THEN <<>>
  ELSE ProjectLines(Head(exps).projects) \o AllProjectLines(Tail(exps))

ProjectRoles == {"projectName", "projectDetail"}

IsProjectWrite(e) == e.role \in ProjectRoles

ExperienceRoles ==
  {"company", "duration", "position", "description", "projectsLabel"}
  \cup ProjectRoles

IsExperienceWrite(e) == e.role \in ExperienceRoles

ProjectWrites == SelectSeq(doc.log, IsProjectWrite)

ExperienceWrites == SelectSeq(doc.log, IsExperienceWrite)

(* the font size the write of a role is made in *)
SizeOf(role) ==
  IF role \in ProjectRoles \cup {"projectsLabel"} THEN FONT_PROJECT
  ELSE FONT_DESCRIPTION

(* the cursor movement between two consecutive writes on one page *)
GapOk(before, after) ==
  after.page = before.page2 =>
    /\ (before.role = "projectName" /\ after.role = "projectDetail")
         => after.y = before.y2
    /\ (before.role \in ProjectRoles /\ after.role = "projectName")
         => after.y = before.y2 + 50 * FONT_PROJECT
    /\ after.role = "company"
         => after.y = before.y2 + 100 * SizeOf(before.role)

ExperienceDone == LastCall = "Experience" /\ ~doc.thrown

C27_ProjectLines ==
  ExperienceDone =>
    /\ [k \in 1..Len(ProjectWrites) |->
          [role |-> ProjectWrites[k].role, str |-> ProjectWrites[k].str]]
         = AllProjectLines(data.experience)
    /\ \A k \in 1..(Len(ExperienceWrites) - 1) :
         GapOk(ExperienceWrites[k], ExperienceWrites[k + 1])
    /\ ExperienceWrites # <<>> =>
         doc.y = ExperienceWrites[Len(ExperienceWrites)].y2
                   + 150 * SizeOf(ExperienceWrites[Len(ExperienceWrites)].role)

(* two entries were written: the first with a blank and an absent project
   detail, the second with a detail line *)
C27_Witness ==
  /\ ExperienceDone
  /\ Len(data.experience) = 2
  /\ Len(data.experience[1].projects) = 2
  /\ data.experience[1].projects[1].detail = S_Blank
  /\ Len(data.experience[2].projects) = 1
  /\ Len(ProjectWrites) = 4
  /\ ProjectWrites[4].role = "projectDetail"

----------------------------------------------------------------------------
(* C29: for every record accepted by resumeSchema and passed through
   sanitizeResumeData, every text write of the renderer receives a defined
   string; in particular the duration written for an experience entry and
   for an education entry is never undefined. *)
C29_WritesDefined ==
  data \in SanitizedRecords =>
    \A i \in 1..Len(doc.log) :
      doc.log[i].op = "text" => doc.log[i].str # Undefined

====
